---- MODULE Spec2Model ----
(***************************************************************************)
(* PDF Activity Extractor: the sentence extraction pipeline of             *)
(* utils/parser.py, the batch classifier of utils/activity_classifier.py   *)
(* and the batch driver of streamlit_app.py.                               *)
(*                                                                         *)
(* A text is a sequence of one-character strings.  The alphabet is ASCII:  *)
(* letters, digits, punctuation, the whitespace characters space, \t, \n,  *)
(* \r and the control character \f.  On that alphabet NFC normalisation    *)
(* (parser.py:311-314) changes nothing.                                    *)
(***************************************************************************)
EXTENDS Naturals, Integers, Sequences, FiniteSets, TLC

(* ------------------------------------------------------------------ *)
(* Characters                                                          *)
(* ------------------------------------------------------------------ *)

Range(s) == {s[i] : i \in DOMAIN s}

\* F(x) with x evaluated once, before F is: how Python passes an argument
At(F(_), x) == CHOOSE y \in {F(v) : v \in {x}} : TRUE

LowerLetters ==
  <<"a","b","c","d","e","f","g","h","i","j","k","l","m",
    "n","o","p","q","r","s","t","u","v","w","x","y","z">>

UpperLetters ==
  <<"A","B","C","D","E","F","G","H","I","J","K","L","M",
    "N","O","P","Q","R","S","T","U","V","W","X","Y","Z">>

LowerSet == Range(LowerLetters)

UpperSet == Range(UpperLetters)

Letters == LowerSet \cup UpperSet

Digits == {"0","1","2","3","4","5","6","7","8","9"}

\* 'aeiou' of parser.py:246 and parser.py:289
Vowels == {"a","e","i","o","u"}

\* the regex class [bcdfghjklmnpqrstvwxyz]
ConsonantClass == LowerSet \ Vowels

\* the class [.!?] of the splitter and the string '.!?' of the terminal check
SentencePunct == {".","!","?"}

LowerOf == [c \in UpperSet |->
              LowerLetters[CHOOSE i \in 1..26 : UpperLetters[i] = c]]

\* str.lower() on one character
Lower(c) == IF c \in UpperSet THEN LowerOf[c] ELSE c

\* str.lower()
LowerText(s) == SubSeq([i \in 1..Len(s) |-> Lower(s[i])], 1, Len(s))

\* str.isalpha() on one character
IsAlpha(c) == c \in Letters

\* str.isspace() and the regex class \s on the alphabet
IsSpace(c) == c \in {" ", "\t", "\n", "\r", "\f"}

\* the regex class \w
IsWord(c) == c \in Letters \/ c \in Digits \/ c = "_"

\* the control characters of [\x00-\x08\x0B\x0C\x0E-\x1F\x7F] on the alphabet
IsControl(c) == c = "\f"

(* ------------------------------------------------------------------ *)
(* String primitives                                                   *)
(* ------------------------------------------------------------------ *)

RECURSIVE LStripFrom(_, _)
LStripFrom(s, i) ==
  IF i <= Len(s) /\ IsSpace(s[i]) THEN LStripFrom(s, i + 1) ELSE i

RECURSIVE RStripTo(_, _)
RStripTo(s, j) ==
  IF j >= 1 /\ IsSpace(s[j]) THEN RStripTo(s, j - 1) ELSE j

\* str.strip()
Strip(s) == At(LAMBDA t : SubSeq(t, LStripFrom(t, 1), RStripTo(t, Len(t))), s)

\* last index of the longest run of characters of S that starts at i (i-1: no run)
RECURSIVE RunEnd(_, _, _)
RunEnd(text, i, S) ==
  IF i <= Len(text) /\ text[i] \in S THEN RunEnd(text, i + 1, S) ELSE i - 1

WhiteSpace == {" ", "\t", "\n", "\r", "\f"}

WordAt(text, i) == i >= 1 /\ i <= Len(text) /\ IsWord(text[i])

\* the regex assertion \b between text[i-1] and text[i]
Boundary(text, i) == WordAt(text, i - 1) # WordAt(text, i)

\* text[i..] starts with lit (ci: under re.IGNORECASE)
MatchLit(text, i, lit, ci) ==
  /\ i >= 1
  /\ i + Len(lit) - 1 <= Len(text)
  /\ \A k \in 1..Len(lit) :
        IF ci THEN Lower(text[i + k - 1]) = Lower(lit[k])
              ELSE text[i + k - 1] = lit[k]

CharAt(text, i, c) == i >= 1 /\ i <= Len(text) /\ text[i] = c

(* ------------------------------------------------------------------ *)
(* extract_sentences_from_text: normaliser, period protection, splitter *)
(* ------------------------------------------------------------------ *)

\* the placeholder 'DOTPLACEHOLDER' of parser.py:330
DOTPLACEHOLDER == <<"D","O","T","P","L","A","C","E","H","O","L","D","E","R">>

\* the placeholder 'DECIMALDOT' of parser.py:334
DECIMALDOT == <<"D","E","C","I","M","A","L","D","O","T">>

\* the list of parser.py:324-328, each entry as written in the source (a regex fragment)
abbreviations ==
  << <<"D","r">>,
     <<"M","r">>,
     <<"M","r","s">>,
     <<"M","s">>,
     <<"P","r","o","f">>,
     <<"I","n","c">>,
     <<"L","t","d">>,
     <<"C","o","r","p">>,
     <<"C","o">>,
     <<"L","L","C">>,
     <<"e","t","c">>,
     <<"v","s">>,
     <<"e","\\",".","g">>,
     <<"i","\\",".","e">>,
     <<"c","f">>,
     <<"v","i","z">>,
     <<"a","l">>,
     <<"J","r">>,
     <<"S","r">>,
     <<"P","h","\\",".","D">>,
     <<"M","\\",".","D">>,
     <<"B","\\",".","A">>,
     <<"M","\\",".","A">>,
     <<"M","\\",".","S">>,
     <<"B","\\",".","S">>,
     <<"U","\\",".","S">>,
     <<"U","\\",".","K">>,
     <<"U","\\",".","N">> >>

\* the list of parser.py:337-343
decimal_units ==
  << <<"m","i","l","l","i","o","n">>,
     <<"b","i","l","l","i","o","n">>,
     <<"t","r","i","l","l","i","o","n">>,
     <<"t","h","o","u","s","a","n","d">>,
     <<"h","u","n","d","r","e","d">>,
     <<"p","e","r","c","e","n","t">>,
     <<"%">>,
     <<"d","e","g","r","e","e","s">>,
     <<"i","n","c","h","e","s">>,
     <<"f","e","e","t">>,
     <<"y","a","r","d","s">>,
     <<"m","i","l","e","s">>,
     <<"k","m">>,
     <<"m","e","t","e","r","s">>,
     <<"k","g">>,
     <<"l","b","s">>,
     <<"p","o","u","n","d","s">>,
     <<"t","o","n","s">>,
     <<"o","u","n","c","e","s">>,
     <<"g","r","a","m","s">>,
     <<"s","e","c","o","n","d","s">>,
     <<"m","i","n","u","t","e","s">>,
     <<"h","o","u","r","s">>,
     <<"d","a","y","s">>,
     <<"w","e","e","k","s">>,
     <<"m","o","n","t","h","s">>,
     <<"y","e","a","r","s">>,
     <<"d","o","l","l","a","r","s">>,
     <<"c","e","n","t","s">>,
     <<"e","u","r","o","s">>,
     <<"p","o","u","n","d","s">> >>

\* the text a regex fragment of the list matches: \. stands for a period
AbbrPattern(abbr) == SelectSeq(abbr, LAMBDA c : c # "\\")

\* r'[ \t]+' (parser.py:317)
SpacesMatch(text, i) ==
  IF text[i] \in {" ", "\t"} THEN RunEnd(text, i, {" ", "\t"}) ELSE 0

\* r'\r\n|\r' (parser.py:318)
LineEndMatch(text, i) ==
  IF text[i] # "\r" THEN 0 ELSE IF CharAt(text, i + 1, "\n") THEN i + 1 ELSE i

\* r'\n{4,}' (parser.py:319)
NewlinesMatch(text, i) ==
  LET e == RunEnd(text, i, {"\n"}) IN IF e - i + 1 >= 4 THEN e ELSE 0

\* AbbrMatch without re.IGNORECASE
AbbrMatch_CaseSensitive(text, i, abbr) ==
  LET p == AbbrPattern(abbr)
      n == Len(p)
  IN IF /\ Boundary(text, i)
        /\ MatchLit(text, i, p, FALSE)
        /\ CharAt(text, i + n, ".")
        /\ CharAt(text, i + n + 1, " ")
     THEN i + n + 1 ELSE 0

\* rf'\b{abbr}\. ' with re.IGNORECASE (parser.py:330)
AbbrMatch(text, i, abbr) ==
  LET p == AbbrPattern(abbr)
      n == Len(p)
  IN IF /\ Boundary(text, i)
        /\ MatchLit(text, i, p, TRUE)
        /\ CharAt(text, i + n, ".")
        /\ CharAt(text, i + n + 1, " ")
     THEN i + n + 1 ELSE 0

\* f'{abbr}DOTPLACEHOLDER ': the template keeps the entry as written, its
\* backslash included (re leaves the unknown escape \. alone)
AbbrRepl(abbr) == abbr \o DOTPLACEHOLDER \o <<" ">>

\* r'\b(\d+)\.(\d+)\b' (parser.py:334)
DecimalMatch(text, i) ==
  LET a == RunEnd(text, i, Digits)
      b == RunEnd(text, a + 2, Digits)
  IN IF /\ Boundary(text, i)
        /\ a >= i
        /\ CharAt(text, a + 1, ".")
        /\ b >= a + 2
        /\ Boundary(text, b + 1)
     THEN b ELSE 0

\* r'\1DECIMALDOT\2'
DecimalRepl(text, i, e) ==
  LET a == RunEnd(text, i, Digits)
  IN SubSeq(text, i, a) \o DECIMALDOT \o SubSeq(text, a + 2, e)

\* rf'\b(\d+)DECIMALDOT(\d+)\s+{unit}\b' with re.IGNORECASE (parser.py:346)
UnitMatch(text, i, unit) ==
  LET a == RunEnd(text, i, Digits)
      b == RunEnd(text, a + Len(DECIMALDOT) + 1, Digits)
      c == RunEnd(text, b + 1, WhiteSpace)
      e == c + Len(unit)
  IN IF /\ Boundary(text, i)
        /\ a >= i
        /\ MatchLit(text, a + 1, DECIMALDOT, TRUE)
        /\ b >= a + Len(DECIMALDOT) + 1
        /\ c >= b + 1
        /\ MatchLit(text, c + 1, unit, TRUE)
        /\ Boundary(text, e + 1)
     THEN e ELSE 0

\* rf'\1DECIMALDOT\2 {unit}'
UnitRepl(text, i, unit) ==
  LET a == RunEnd(text, i, Digits)
      b == RunEnd(text, a + Len(DECIMALDOT) + 1, Digits)
  IN SubSeq(text, i, a) \o DECIMALDOT
       \o SubSeq(text, a + Len(DECIMALDOT) + 1, b) \o <<" ">> \o unit

OrdinalSuffixes == { <<"s","t">>, <<"n","d">>, <<"r","d">>, <<"t","h">> }

\* r'\b(\d+)(st|nd|rd|th)\.' (parser.py:349)
OrdinalMatch(text, i) ==
  LET a == RunEnd(text, i, Digits)
  IN IF /\ Boundary(text, i)
        /\ a >= i
        /\ \E s \in OrdinalSuffixes : MatchLit(text, a + 1, s, FALSE)
        /\ CharAt(text, a + 3, ".")
     THEN a + 3 ELSE 0

\* r'\1\2DOTPLACEHOLDER'
OrdinalRepl(text, i, e) == SubSeq(text, i, e - 1) \o DOTPLACEHOLDER

Meridiems == { <<"A","M">>, <<"P","M">>, <<"a","m">>, <<"p","m">> }

\* r'\b(\d{1,2})\.(\d{2})\s*(AM|PM|am|pm)\b' (parser.py:352)
TimeMatch(text, i) ==
  LET a == RunEnd(text, i, Digits)
      c == RunEnd(text, a + 4, WhiteSpace)
  IN IF /\ Boundary(text, i)
        /\ a - i + 1 \in {1, 2}
        /\ CharAt(text, a + 1, ".")
        /\ a + 3 <= Len(text)
        /\ text[a + 2] \in Digits
        /\ text[a + 3] \in Digits
        /\ \E m \in Meridiems : MatchLit(text, c + 1, m, FALSE)
        /\ Boundary(text, c + 3)
     THEN c + 2 ELSE 0

\* r'\1DECIMALDOT\2 \3'
TimeRepl(text, i, e) ==
  LET a == RunEnd(text, i, Digits)
  IN SubSeq(text, i, a) \o DECIMALDOT \o SubSeq(text, a + 2, a + 3)
       \o <<" ">> \o SubSeq(text, e - 1, e)

\* r'\s*(\d+)\.(\d+)' from position j: the last index matched, or 0
VersionRest(text, j) ==
  LET c == RunEnd(text, j, WhiteSpace)
      a == RunEnd(text, c + 1, Digits)
      b == RunEnd(text, a + 2, Digits)
  IN IF a >= c + 1 /\ CharAt(text, a + 1, ".") /\ b >= a + 2 THEN b ELSE 0

\* length of the alternative of (v|version) the match takes at i, first one first
VersionGroup(text, i) ==
  IF MatchLit(text, i, <<"v">>, TRUE) /\ VersionRest(text, i + 1) > 0 THEN 1
  ELSE IF MatchLit(text, i, <<"v","e","r","s","i","o","n">>, TRUE)
          /\ VersionRest(text, i + 7) > 0 THEN 7
  ELSE 0

\* r'\b(v|version)\s*(\d+)\.(\d+)' with re.IGNORECASE (parser.py:355)
VersionMatch(text, i) ==
  LET g == VersionGroup(text, i)
  IN IF Boundary(text, i) /\ g > 0 THEN VersionRest(text, i + g) ELSE 0

\* r'\1 \2DECIMALDOT\3'
VersionRepl(text, i, e) ==
  LET g == VersionGroup(text, i)
      c == RunEnd(text, i + g, WhiteSpace)
      a == RunEnd(text, c + 1, Digits)
  IN SubSeq(text, i, i + g - 1) \o <<" ">> \o SubSeq(text, c + 1, a)
       \o DECIMALDOT \o SubSeq(text, a + 2, e)

\* r'\b(\d{1,2})\.(\d{1,2})\.(\d{4})\b' (parser.py:358)
DateMatch(text, i) ==
  LET a == RunEnd(text, i, Digits)
      b == RunEnd(text, a + 2, Digits)
      d == RunEnd(text, b + 2, Digits)
  IN IF /\ Boundary(text, i)
        /\ a - i + 1 \in {1, 2}
        /\ CharAt(text, a + 1, ".")
        /\ b - (a + 2) + 1 \in {1, 2}
        /\ CharAt(text, b + 1, ".")
        /\ d - (b + 2) + 1 = 4
        /\ Boundary(text, d + 1)
     THEN d ELSE 0

\* r'\1DECIMALDOT\2DECIMALDOT\3'
DateRepl(text, i, e) ==
  LET a == RunEnd(text, i, Digits)
      b == RunEnd(text, a + 2, Digits)
  IN SubSeq(text, i, a) \o DECIMALDOT \o SubSeq(text, a + 2, b)
       \o DECIMALDOT \o SubSeq(text, b + 2, e)

\* A substitution rule is [kind, lit]; lit is the list entry of an "abbr" or
\* "unit" rule and the searched text of a "replace" rule (str.replace by '.').
Rule(kind, lit) == [kind |-> kind, lit |-> lit]

\* last index of the match of the rule that starts at i (0: no match at i)
MatchEnd(rule, text, i) ==
  CASE rule.kind = "spaces"   -> SpacesMatch(text, i)
    [] rule.kind = "lineend"  -> LineEndMatch(text, i)
    [] rule.kind = "newlines" -> NewlinesMatch(text, i)
    [] rule.kind = "abbr"     -> AbbrMatch(text, i, rule.lit)
    [] rule.kind = "decimal"  -> DecimalMatch(text, i)
    [] rule.kind = "unit"     -> UnitMatch(text, i, rule.lit)
    [] rule.kind = "ordinal"  -> OrdinalMatch(text, i)
    [] rule.kind = "time"     -> TimeMatch(text, i)
    [] rule.kind = "version"  -> VersionMatch(text, i)
    [] rule.kind = "date"     -> DateMatch(text, i)
    [] rule.kind = "replace"  ->
         IF MatchLit(text, i, rule.lit, FALSE) THEN i + Len(rule.lit) - 1 ELSE 0
    [] rule.kind = "control"  -> IF IsControl(text[i]) THEN i ELSE 0
    [] rule.kind = "blanks"   ->
         IF IsSpace(text[i]) THEN RunEnd(text, i, WhiteSpace) ELSE 0

\* what the rule puts in place of its match text[i..e]
Replacement(rule, text, i, e) ==
  CASE rule.kind = "spaces"   -> <<" ">>
    [] rule.kind = "lineend"  -> <<"\n">>
    [] rule.kind = "newlines" -> <<"\n", "\n", "\n">>
    [] rule.kind = "abbr"     -> AbbrRepl(rule.lit)
    [] rule.kind = "decimal"  -> DecimalRepl(text, i, e)
    [] rule.kind = "unit"     -> UnitRepl(text, i, rule.lit)
    [] rule.kind = "ordinal"  -> OrdinalRepl(text, i, e)
    [] rule.kind = "time"     -> TimeRepl(text, i, e)
    [] rule.kind = "version"  -> VersionRepl(text, i, e)
    [] rule.kind = "date"     -> DateRepl(text, i, e)
    [] rule.kind = "replace"  -> <<".">>
    [] rule.kind = "control"  -> <<>>
    [] rule.kind = "blanks"   -> <<" ">>

MinOf(S) == CHOOSE x \in S : \A y \in S : x <= y

\* the start of the leftmost match of the rule at or after i (0: none)
FirstMatch(rule, text, i) ==
  At(LAMBDA starts : IF starts = {} THEN 0 ELSE MinOf(starts),
     {j \in i..Len(text) : MatchEnd(rule, text, j) > 0})

\* re.sub and str.replace from position i: the leftmost match j..e is replaced,
\* then the search goes on from e + 1
RECURSIVE SubAll(_, _, _)
SubAll(rule, text, i) ==
  At(LAMBDA j :
       IF j = 0 THEN SubSeq(text, i, Len(text))
       ELSE At(LAMBDA e : SubSeq(text, i, j - 1) \o Replacement(rule, text, j, e)
                            \o SubAll(rule, text, e + 1),
               MatchEnd(rule, text, j)),
     FirstMatch(rule, text, i))

re_sub(rule, text) == At(LAMBDA t : SubAll(rule, t, 1), text)

\* the substitutions rules[lo..hi], one after the other
RECURSIVE ApplyRules(_, _, _, _)
ApplyRules(rules, lo, hi, text) ==
  IF lo > hi THEN text
  ELSE IF lo = hi THEN re_sub(rules[lo], text)
  ELSE At(LAMBDA t : ApplyRules(rules, ((lo + hi) \div 2) + 1, hi, t),
          ApplyRules(rules, lo, (lo + hi) \div 2, text))

\* parser.py:317-319
NormalizeRules ==
  << Rule("spaces", <<>>), Rule("lineend", <<>>), Rule("newlines", <<>>) >>

NormalizeText(text) == ApplyRules(NormalizeRules, 1, Len(NormalizeRules), text)

\* parser.py:329-358, in the order of the source
ProtectRules ==
  SubSeq([k \in 1..Len(abbreviations) |-> Rule("abbr", abbreviations[k])],
         1, Len(abbreviations))
    \o << Rule("decimal", <<>>) >>
    \o SubSeq([k \in 1..Len(decimal_units) |-> Rule("unit", decimal_units[k])],
              1, Len(decimal_units))
    \o << Rule("ordinal", <<>>), Rule("time", <<>>),
          Rule("version", <<>>), Rule("date", <<>>) >>

ProtectPeriods(text) == ApplyRules(ProtectRules, 1, Len(ProtectRules), text)

\* RestoreRules without the replace of parser.py:370
RestoreRules_NoDecimal == << Rule("replace", DOTPLACEHOLDER) >>

\* parser.py:369-370
RestoreRules == << Rule("replace", DOTPLACEHOLDER), Rule("replace", DECIMALDOT) >>

RestorePeriods(text) == ApplyRules(RestoreRules, 1, Len(RestoreRules), text)

\* r'[.!?]+(?=\s|\n|$)': the last index of the match that starts at i (0: none)
BoundaryMatch(text, i) ==
  LET e == RunEnd(text, i, SentencePunct)
  IN IF e >= i /\ (e = Len(text) \/ IsSpace(text[e + 1])) THEN e ELSE 0

\* re.split(r'[.!?]+(?=\s|\n|$)', text) from position i (parser.py:361)
RECURSIVE SplitBoundaries(_, _)
SplitBoundaries(text, i) ==
  At(LAMBDA starts :
       IF starts = {} THEN << SubSeq(text, i, Len(text)) >>
       ELSE At(LAMBDA j : << SubSeq(text, i, j - 1) >>
                            \o SplitBoundaries(text, BoundaryMatch(text, j) + 1),
               MinOf(starts)),
     {j \in i..Len(text) : BoundaryMatch(text, j) > 0})

\* str.split(sep) from position i, for a non-empty separator
RECURSIVE SplitOn(_, _, _)
SplitOn(s, sep, i) ==
  At(LAMBDA starts :
       IF starts = {} THEN << SubSeq(s, i, Len(s)) >>
       ELSE At(LAMBDA j : << SubSeq(s, i, j - 1) >> \o SplitOn(s, sep, j + Len(sep)),
               MinOf(starts)),
     {j \in i..Len(s) : MatchLit(s, j, sep, FALSE)})

StrSplit(s, sep) == At(LAMBDA t : SplitOn(t, sep, 1), s)

\* the minimum length of a fragment (parser.py:373 and parser.py:389)
MinFragmentLen == 5

\* EnsureTerminal that appends nothing
EnsureTerminal_Never(s) == s

\* append a terminal '.' when the last character is none of '.!?'
EnsureTerminal(s) ==
  IF s # <<>> /\ s[Len(s)] \notin SentencePunct THEN Append(s, ".") ELSE s

\* the lists of a list of lists, one after the other
RECURSIVE FlattenFrom(_, _)
FlattenFrom(lists, k) ==
  IF k > Len(lists) THEN <<>> ELSE lists[k] \o FlattenFrom(lists, k + 1)

Flatten(lists) == At(LAMBDA ls : FlattenFrom(ls, 1), lists)

\* parser.py:365-380: what one fragment of the split adds to sentences
CleanFragment(fragment) ==
  IF Strip(fragment) = <<>> THEN <<>>
  ELSE At(LAMBDA sentence :
            IF Len(sentence) < MinFragmentLen THEN <<>>
            ELSE << EnsureTerminal(sentence) >>,
          Strip(RestorePeriods(fragment)))

\* parser.py:363-380: the first pass over the fragments of the split
FirstPass(fragments) ==
  Flatten(SubSeq([k \in 1..Len(fragments) |-> CleanFragment(fragments[k])],
                 1, Len(fragments)))

\* parser.py:388-392: what one part of a sentence adds to additional_sentences
CleanPart(p) ==
  At(LAMBDA part :
       IF Len(part) >= MinFragmentLen THEN << EnsureTerminal(part) >> ELSE <<>>,
     Strip(SubSeq([k \in 1..Len(p) |-> IF p[k] = "\n" THEN " " ELSE p[k]],
                  1, Len(p))))

\* parser.py:386-392: the parts of one sentence split on '\n\n'
PartsOf(sentence) ==
  At(LAMBDA parts :
       Flatten(SubSeq([k \in 1..Len(parts) |-> CleanPart(parts[k])], 1, Len(parts))),
     StrSplit(sentence, <<"\n", "\n">>))

\* parser.py:383-392: the second pass
SecondPass(sentences) ==
  Flatten(SubSeq([k \in 1..Len(sentences) |-> PartsOf(sentences[k])],
                 1, Len(sentences)))

\* extract_sentences_from_text (parser.py:295-394)
extract_sentences_from_text(text) ==
  IF text = <<>> \/ Strip(text) = <<>> THEN <<>>
  ELSE At(SecondPass,
          At(FirstPass,
             At(LAMBDA t : SplitBoundaries(t, 1),
                At(ProtectPeriods, At(NormalizeText, text)))))

\* the cap of parser.py:416
max_length == 32000

TruncatedSuffix == <<".",".","."," ","[","T","R","U","N","C","A","T","E","D","]">>

\* parser.py:413: re.sub(r'\s+', ' ', sentence.strip())
CollapseBlanks(sentence) == re_sub(Rule("blanks", <<>>), Strip(sentence))

\* Truncate that cuts a sentence of exactly max_length characters too
Truncate_AtLength(sentence) ==
  IF Len(sentence) >= max_length
  THEN SubSeq(sentence, 1, max_length) \o TruncatedSuffix
  ELSE sentence

\* parser.py:416-418
Truncate(sentence) ==
  IF Len(sentence) > max_length
  THEN SubSeq(sentence, 1, max_length) \o TruncatedSuffix
  ELSE sentence

\* clean_sentence_text (parser.py:396-420)
clean_sentence_text(sentence) ==
  At(Truncate, At(CollapseBlanks, re_sub(Rule("control", <<>>), sentence)))

(* ------------------------------------------------------------------ *)
(* Garbage detectors                                                   *)
(* ------------------------------------------------------------------ *)

CountIn(text, S) == Cardinality({i \in DOMAIN text : text[i] \in S})

\* str.replace(' ', '')
WithoutSpaces(text) == SelectSeq(text, LAMBDA c : c # " ")

\* a match of [bcdfghjklmnpqrstvwxyz]{n,} starts at i
ConsonantRunAt(text, i, n) ==
  /\ i + n - 1 <= Len(text)
  /\ \A k \in 0..(n - 1) : text[i + k] \in ConsonantClass

\* len(re.findall(r'[bcdfghjklmnpqrstvwxyz]{n,}', text)): the maximal runs of
\* at least n consonants
ConsonantRuns(text, n) ==
  Cardinality({i \in DOMAIN text :
                 /\ ConsonantRunAt(text, i, n)
                 /\ (i = 1 \/ text[i - 1] \notin ConsonantClass)})

\* SentenceChecks without Check 4 (parser.py:245-247)
SentenceChecks_NoVowelCheck(clean_sentence) ==
  LET alpha_chars == CountIn(clean_sentence, Letters)
      total_chars == Len(WithoutSpaces(clean_sentence))
  IN IF total_chars > 10 /\ 10 * alpha_chars < 3 * total_chars THEN TRUE
     ELSE IF ConsonantRuns(clean_sentence, 8) > 0 THEN TRUE
     ELSE IF /\ Cardinality(Range(WithoutSpaces(clean_sentence))) < 3
             /\ Len(clean_sentence) > 10 THEN TRUE
     ELSE FALSE

\* parser.py:231-249 on clean_sentence; a ratio a / b < 0.3 is 10a < 3b
SentenceChecks(clean_sentence) ==
  LET alpha_chars == CountIn(clean_sentence, Letters)
      total_chars == Len(WithoutSpaces(clean_sentence))
  IN IF total_chars > 10 /\ 10 * alpha_chars < 3 * total_chars THEN TRUE
     ELSE IF ConsonantRuns(clean_sentence, 8) > 0 THEN TRUE
     ELSE IF /\ Cardinality(Range(WithoutSpaces(clean_sentence))) < 3
             /\ Len(clean_sentence) > 10 THEN TRUE
     ELSE IF alpha_chars > 5 /\ CountIn(clean_sentence, Vowels) = 0 THEN TRUE
     ELSE FALSE

\* is_sentence_garbage (parser.py:210-249)
is_sentence_garbage(sentence) ==
  IF sentence = <<>> \/ Len(Strip(sentence)) < 5 THEN TRUE
  ELSE At(SentenceChecks, Strip(LowerText(sentence)))

\* PageChecks that flags a single consonant run already
PageChecks_OneRun(clean_text) ==
  LET alpha_chars == CountIn(clean_text, Letters)
      total_chars == Len(WithoutSpaces(clean_text))
      non_alpha_non_space ==
        Cardinality({i \in DOMAIN clean_text :
                       clean_text[i] \notin Letters /\ ~IsSpace(clean_text[i])})
      vowels == CountIn(clean_text, Vowels)
  IN IF ConsonantRuns(clean_text, 10) > 0 THEN TRUE
     ELSE IF total_chars > 100 /\ 10 * alpha_chars < 4 * total_chars THEN TRUE
     ELSE IF /\ Len(clean_text) > 100
             /\ 10 * non_alpha_non_space > 7 * Len(clean_text) THEN TRUE
     ELSE IF alpha_chars > 100 /\ 100 * vowels < 8 * alpha_chars THEN TRUE
     ELSE FALSE

\* parser.py:272-293 on clean_text
PageChecks(clean_text) ==
  LET alpha_chars == CountIn(clean_text, Letters)
      total_chars == Len(WithoutSpaces(clean_text))
      non_alpha_non_space ==
        Cardinality({i \in DOMAIN clean_text :
                       clean_text[i] \notin Letters /\ ~IsSpace(clean_text[i])})
      vowels == CountIn(clean_text, Vowels)
  IN IF ConsonantRuns(clean_text, 10) > 1 THEN TRUE
     ELSE IF total_chars > 100 /\ 10 * alpha_chars < 4 * total_chars THEN TRUE
     ELSE IF /\ Len(clean_text) > 100
             /\ 10 * non_alpha_non_space > 7 * Len(clean_text) THEN TRUE
     ELSE IF alpha_chars > 100 /\ 100 * vowels < 8 * alpha_chars THEN TRUE
     ELSE FALSE

\* the denominators of the divisions that is_ocr_garbage evaluates on
\* clean_text (parser.py:273-290): a division stands behind its guard, and
\* none is evaluated after a return
PageDivisors(clean_text) ==
  LET alpha_chars == CountIn(clean_text, Letters)
      total_chars == Len(WithoutSpaces(clean_text))
      non_alpha_non_space ==
        Cardinality({i \in DOMAIN clean_text :
                       clean_text[i] \notin Letters /\ ~IsSpace(clean_text[i])})
      second == IF total_chars > 100 THEN {total_chars} ELSE {}
      third == IF Len(clean_text) > 100 THEN {Len(clean_text)} ELSE {}
      fourth == IF alpha_chars > 100 THEN {alpha_chars} ELSE {}
  IN IF ConsonantRuns(clean_text, 10) > 1 THEN {}
     ELSE IF total_chars > 100 /\ 10 * alpha_chars < 4 * total_chars
       THEN second
     ELSE IF /\ Len(clean_text) > 100
             /\ 10 * non_alpha_non_space > 7 * Len(clean_text)
       THEN second \cup third
     ELSE second \cup third \cup fourth

\* is_ocr_garbage (parser.py:251-293)
is_ocr_garbage(text) ==
  IF text = <<>> \/ Len(Strip(text)) < 50 THEN FALSE
  ELSE At(PageChecks, Strip(LowerText(text)))

(* ------------------------------------------------------------------ *)
(* Literals of parser.py                                               *)
(* ------------------------------------------------------------------ *)

\* Python's None; no text, since a text holds one-character strings only
None == <<"None">>

\* 'Empty file: ' (parser.py:51)
Msg_EmptyFile ==
  <<"E","m","p","t","y"," ","f","i","l","e",":"," ">>

\* parser.py:54
Err_EmptyFile ==
  <<"F","i","l","e"," ","i","s"," ","e","m","p","t","y"," ","o","r"," ","c",
    "o","u","l","d"," ","n","o","t"," ","b","e"," ","r","e","a","d">>

\* parser.py:63
Msg_Unavailable ==
  <<"P","D","F"," ","p","r","o","c","e","s","s","i","n","g"," ","u","n","a",
    "v","a","i","l","a","b","l","e",":"," ">>

\* parser.py:66
Err_Unavailable ==
  <<"p","d","f","p","l","u","m","b","e","r"," ","n","o","t"," ","a","v","a",
    "i","l","a","b","l","e"," ","-"," ">>

\* parser.py:79
Msg_NoText ==
  <<"N","o"," ","t","e","x","t"," ","f","o","u","n","d"," ","i","n",":"," ">>

\* parser.py:82
Err_NoText ==
  <<"N","o"," ","e","x","t","r","a","c","t","a","b","l","e"," ","t","e","x",
    "t"," ","f","o","u","n","d"," ","i","n"," ","P","D","F">>

\* parser.py:137
Msg_NoSentences ==
  <<"N","o"," ","v","a","l","i","d"," ","s","e","n","t","e","n","c","e","s",
    " ","f","o","u","n","d"," ","i","n",":"," ">>

\* parser.py:140
Err_NoSentences ==
  <<"N","o"," ","v","a","l","i","d"," ","s","e","n","t","e","n","c","e","s",
    " ","c","o","u","l","d"," ","b","e"," ","e","x","t","r","a","c","t","e",
    "d">>

\* parser.py:151
Msg_Failed ==
  <<"F","a","i","l","e","d"," ","t","o"," ","p","a","r","s","e",":"," ">>

\* parser.py:154
Err_Parsing ==
  <<"P","a","r","s","i","n","g"," ","e","r","r","o","r",":"," ">>

\* parser.py:126
Err_OcrIssues ==
  <<"P","o","s","s","i","b","l","e"," ","O","C","R"," ","i","s","s","u","e",
    "s"," ","o","n"," ","p","a","g","e">>

\* parser.py:208
Err_ExtractionFailed ==
  <<"P","D","F"," ","e","x","t","r","a","c","t","i","o","n"," ","f","a","i",
    "l","e","d",":"," ">>

\* parser.py:165
Err_NotAvailable ==
  <<"p","d","f","p","l","u","m","b","e","r"," ","n","o","t"," ","a","v","a",
    "i","l","a","b","l","e",":"," ">>

\* PDF_ERROR after the ImportError of parser.py:15-16
Err_ImportFailed ==
  <<"p","d","f","p","l","u","m","b","e","r"," ","i","m","p","o","r","t"," ",
    "f","a","i","l","e","d",":"," ","N","o"," ","m","o","d","u","l","e"," ",
    "n","a","m","e","d"," ","'","p","d","f","p","l","u","m","b","e","r","'">>

\* PDF_ERROR after an exception other than ImportError, parser.py:18-19
Err_ImportError ==
  <<"p","d","f","p","l","u","m","b","e","r"," ","i","m","p","o","r","t"," ",
    "e","r","r","o","r",":"," ","l","i","b","p","d","f","i","u","m",".","s",
    "o",":"," ","c","a","n","n","o","t"," ","o","p","e","n"," ","s","h","a",
    "r","e","d"," ","o","b","j","e","c","t"," ","f","i","l","e">>

\* str() of the UnboundLocalError that the call of parser.py:113 raises (CPython 3.11)
Err_UnboundLocal ==
  <<"c","a","n","n","o","t"," ","a","c","c","e","s","s"," ","l","o","c","a",
    "l"," ","v","a","r","i","a","b","l","e"," ","'","i","s","_","s","e","n",
    "t","e","n","c","e","_","g","a","r","b","a","g","e","'"," ","w","h","e",
    "r","e"," ","i","t"," ","i","s"," ","n","o","t"," ","a","s","s","o","c",
    "i","a","t","e","d"," ","w","i","t","h"," ","a"," ","v","a","l","u","e">>

\* a message of an exception of pdfplumber.open on bytes that are no PDF
DecoderMessage ==
  <<"N","o"," ","/","R","o","o","t"," ","o","b","j","e","c","t","!"," ","-",
    " ","I","s"," ","t","h","i","s"," ","r","e","a","l","l","y"," ","a"," ",
    "P","D","F","?">>

(* ------------------------------------------------------------------ *)
(* Inputs                                                               *)
(* ------------------------------------------------------------------ *)

\* a page without a text layer
Page_Empty ==
  <<>>

\* a page of whitespace
Page_Blank ==
  <<" ","\n">>

\* one fragment of 7 characters, one under 5
Page_Short ==
  <<"H","i"," ","a","l","l","."," ","O","k",".">>

\* two sentences of 10 characters or more
Page_Two ==
  <<"W","e"," ","m","e","t"," ","D","r","."," ","L","e","e","."," ","T","h",
    "e","n"," ","w","e"," ","l","e","f","t",".">>

\* a fragment under 10 characters, then a sentence
Page_Mixed ==
  <<"H","i"," ","a","l","l","."," ","W","e"," ","w","e","n","t"," ","h","o",
    "m","e",".">>

\* a page is_ocr_garbage flags (two runs of 10 consonants, 53 characters), with one garbage and one clean sentence
Page_Ocr ==
  <<"b","c","d","f","g","h","j","k","l","m"," ","n","p","q","r","s","t","v",
    "w","x","z","."," ","W","e"," ","p","l","a","n"," ","t","o"," ","b","u",
    "i","l","d"," ","r","o","a","d","s"," ","i","n"," ","M","a","y",".">>

\* one sentence of 22 characters that is_sentence_garbage flags (a run of 10 consonants)
Page_Garbage ==
  <<"b","c","d","f","g","h","j","k","l","m"," ","n","p","q","r","s","t","v",
    "w","x","z",".">>

PageTexts ==
  {Page_Empty, Page_Blank, Page_Short, Page_Two, Page_Mixed, Page_Ocr, Page_Garbage}

\* the largest number of pages of a document
MaxPages == 2

PageLists == UNION {[1..n -> PageTexts] : n \in 0..MaxPages}

File_A ==
  <<"a",".","p","d","f">>

File_R ==
  <<"r",".","v","2",".","p","d","f">>

FileNames == {File_A, File_R}

\* What the decoder does with the bytes of a document: it raises (ok = FALSE,
\* with a message) or it gives one text per page.
Decodings ==
  {[ok |-> FALSE, pages |-> <<>>, msg |-> DecoderMessage]}
    \cup {[ok |-> TRUE, pages |-> ps, msg |-> <<>>] : ps \in PageLists}

(* ------------------------------------------------------------------ *)
(* parse_pdf_bytes                                                      *)
(* ------------------------------------------------------------------ *)

\* the last index of c in s (0: none)
LastIndexOf(s, c) ==
  LET at == {i \in DOMAIN s : s[i] = c}
  IN IF at = {} THEN 0 ELSE CHOOSE i \in at : \A j \in at : j <= i

\* file_name.rsplit('.', 1)[0]
DocumentName(name) ==
  IF LastIndexOf(name, ".") = 0 THEN name
  ELSE SubSeq(name, 1, LastIndexOf(name, ".") - 1)

\* the activity_index of a record returned alone (parser.py:50, 62, 78, 136, 150)
FallbackIndex == 0

\* FallbackRecord with the index counted from 1
FallbackRecord_IndexOne(name, text, error) ==
  [file_name |-> name, activity_index |-> FallbackIndex + 1, activity_text |-> text,
   page_number |-> 1, document_name |-> DocumentName(name), error |-> error]

\* the record returned alone when a file gives no sentence
FallbackRecord(name, text, error) ==
  [file_name |-> name, activity_index |-> FallbackIndex, activity_text |-> text,
   page_number |-> 1, document_name |-> DocumentName(name), error |-> error]

\* the record of an accepted sentence (parser.py:120-127)
SentenceRecord(name, index, sentence, page, garbage) ==
  [file_name |-> name, activity_index |-> index,
   activity_text |-> clean_sentence_text(sentence), page_number |-> page,
   document_name |-> DocumentName(name),
   error |-> IF garbage THEN Err_OcrIssues ELSE None]

\* ParseExcept without str(e) in the error
ParseExcept_NoMessage(name, e) ==
  << FallbackRecord(name, Msg_Failed \o name, Err_Parsing) >>

\* the except clause of parse_pdf_bytes (parser.py:145-155), e given by str(e)
ParseExcept(name, e) ==
  << FallbackRecord(name, Msg_Failed \o name, Err_Parsing \o e) >>

\* parser.py:113 assigns the name is_sentence_garbage inside parse_pdf_bytes,
\* which makes it a local variable of the function: the call on the right of
\* the assignment reads the local before it is bound
is_sentence_garbage_is_local == TRUE

\* the shortest sentence parse_pdf_bytes keeps (parser.py:109)
MinSentenceLen == 10

\* extract_text_with_pdfplumber (parser.py:157-208): [raised, msg, value]
extract_text_with_pdfplumber(available, error, d) ==
  IF ~available
  THEN [raised |-> TRUE, msg |-> Err_NotAvailable \o error, value |-> <<>>]
  ELSE IF ~d.ok
  THEN [raised |-> TRUE, msg |-> Err_ExtractionFailed \o d.msg, value |-> <<>>]
  ELSE [raised |-> FALSE, msg |-> <<>>, value |-> d.pages]

VARIABLES
  PDF_AVAILABLE,   \* module flag: the import of pdfplumber succeeded
  PDF_ERROR,       \* module variable: the text of the import error, or None
  file_name,       \* argument of parse_pdf_bytes
  pdf_bytes,       \* argument of parse_pdf_bytes: the number of bytes
  decoded,         \* what the decoder does with these bytes
  p_pc,            \* where parse_pdf_bytes is: idle, begin, loop, done
  pages_text,
  page_num,        \* the page of the outer loop (0 before the first)
  page_is_garbage,
  sentences,       \* the sentences of the current page
  sentence_pos,    \* how many of them the inner loop has taken
  all_sentences,
  sentence_index,
  caught,          \* str(e) of the exception the except clause caught, or None
  parse_result,    \* the list returned (empty until the return)
  \* classify_sentences
  sentences_data,  \* argument: the records to classify
  batch_size,      \* argument
  c_pc,            \* where classify_sentences is: idle, begin, batches, done
  enhanced_texts,
  all_predictions,
  batch_start,     \* i of the loop of activity_classifier.py:105
  model_calls,     \* the batches given to the model, each with the labels it gave
  classify_failed, \* the except clause of activity_classifier.py:149 ran
  classify_result, \* the list returned (empty until the return)
  \* streamlit_app.py: st.session_state and process_files_and_classify
  upload_files,
  pdf_uploader,    \* the files the uploader widget holds (key 'pdf_uploader')
  model_loaded,
  processing_results,
  classification_results,
  processing_complete,
  a_pc,            \* where process_files_and_classify is: idle, files, parse, classify, done, raised
  file_pos,        \* i of the loop of streamlit_app.py:130
  results,
  processed_names,
  parsed_files,    \* the unique names given to parse_pdf_bytes, in call order
  display_data,    \* the rows of the preview this run of main() has shown
  \* a call of one function of utils/parser.py or streamlit_app.py on its own
  f_arg,           \* the argument
  f_ret,           \* the value returned (empty until the return)
  f_pc             \* idle, call, done

envVars == <<PDF_AVAILABLE, PDF_ERROR>>

parseArgs == <<file_name, pdf_bytes, decoded>>

parseLocals ==
  <<pages_text, page_num, page_is_garbage, sentences, sentence_pos,
    all_sentences, sentence_index>>

parseVars == <<parseArgs, p_pc, parseLocals, caught, parse_result>>

classVars ==
  <<sentences_data, batch_size, c_pc, enhanced_texts, all_predictions,
    batch_start, model_calls, classify_failed, classify_result>>

sessionVars ==
  <<upload_files, pdf_uploader, model_loaded, processing_results,
    classification_results, processing_complete>>

appVars ==
  <<sessionVars, a_pc, file_pos, results, processed_names, parsed_files,
    display_data>>

callVars == <<f_arg, f_ret, f_pc>>

vars == <<envVars, parseVars, classVars, appVars, callVars>>

\* the locals before the loop starts
ParseLocalsInit ==
  /\ pages_text = <<>>
  /\ page_num = 0
  /\ page_is_garbage = FALSE
  /\ sentences = <<>>
  /\ sentence_pos = 0
  /\ all_sentences = <<>>
  /\ sentence_index = 0
  /\ caught = None
  /\ parse_result = <<>>

\* the import of parser.py:11-20 succeeded, raised ImportError, or raised
\* another exception
EnvInit ==
  \/ PDF_AVAILABLE = TRUE /\ PDF_ERROR = None
  \/ PDF_AVAILABLE = FALSE /\ PDF_ERROR = Err_ImportFailed
  \/ PDF_AVAILABLE = FALSE /\ PDF_ERROR = Err_ImportError

\* a return statement of parse_pdf_bytes
ParseReturn(records) ==
  /\ parse_result' = records
  /\ p_pc' = "done"

\* an exception reaches the except clause of parser.py:145
ParseRaise(e) ==
  /\ caught' = e
  /\ ParseReturn(ParseExcept(file_name, e))

\* parser.py:42-89: validation, decoding, the start of the loop
ParseBegin ==
  /\ p_pc = "begin"
  /\ LET got == extract_text_with_pdfplumber(PDF_AVAILABLE, PDF_ERROR, decoded)
     IN IF pdf_bytes = 0
        THEN /\ ParseReturn(<< FallbackRecord(file_name, Msg_EmptyFile \o file_name,
                                              Err_EmptyFile) >>)
             /\ UNCHANGED <<parseLocals, caught>>
        ELSE IF ~PDF_AVAILABLE
        THEN /\ ParseReturn(<< FallbackRecord(file_name, Msg_Unavailable \o PDF_ERROR,
                                              Err_Unavailable \o PDF_ERROR) >>)
             /\ UNCHANGED <<parseLocals, caught>>
        ELSE IF got.raised
        THEN /\ ParseRaise(got.msg)
             /\ UNCHANGED parseLocals
        ELSE IF got.value = <<>>
        THEN /\ ParseReturn(<< FallbackRecord(file_name, Msg_NoText \o file_name,
                                              Err_NoText) >>)
             /\ pages_text' = got.value
             /\ UNCHANGED <<page_num, page_is_garbage, sentences, sentence_pos,
                            all_sentences, sentence_index, caught>>
        ELSE /\ pages_text' = got.value
             /\ all_sentences' = <<>>
             /\ sentence_index' = 0
             /\ p_pc' = "loop"
             /\ UNCHANGED <<page_num, page_is_garbage, sentences, sentence_pos,
                            caught, parse_result>>
  /\ UNCHANGED <<parseArgs, envVars>>
  /\ UNCHANGED <<classVars, appVars>>
  /\ UNCHANGED callVars

\* parser.py:91-106: the next page of the outer loop
PageStep ==
  /\ p_pc = "loop"
  /\ sentence_pos = Len(sentences)
  /\ page_num < Len(pages_text)
  /\ page_num' = page_num + 1
  /\ LET page_text == pages_text[page_num + 1]
     IN IF Strip(page_text) = <<>>
        THEN /\ sentences' = <<>>
             /\ UNCHANGED page_is_garbage
        ELSE /\ page_is_garbage' = is_ocr_garbage(page_text)
             /\ sentences' = extract_sentences_from_text(page_text)
  /\ sentence_pos' = 0
  /\ UNCHANGED <<parseArgs, envVars, p_pc, pages_text, all_sentences,
                 sentence_index, caught, parse_result>>
  /\ UNCHANGED <<classVars, appVars>>
  /\ UNCHANGED callVars

\* parser.py:108-128: the next sentence of the inner loop
SentenceStep ==
  /\ p_pc = "loop"
  /\ sentence_pos < Len(sentences)
  /\ LET sentence == sentences[sentence_pos + 1]
     IN IF Len(Strip(sentence)) < MinSentenceLen
        THEN /\ sentence_pos' = sentence_pos + 1
             /\ UNCHANGED <<all_sentences, sentence_index, caught, parse_result, p_pc>>
        ELSE IF is_sentence_garbage_is_local
        THEN /\ ParseRaise(Err_UnboundLocal)
             /\ UNCHANGED <<sentence_pos, all_sentences, sentence_index>>
        ELSE IF is_sentence_garbage(sentence)
        THEN /\ sentence_pos' = sentence_pos + 1
             /\ UNCHANGED <<all_sentences, sentence_index, caught, parse_result, p_pc>>
        ELSE /\ all_sentences' =
                  Append(all_sentences,
                         SentenceRecord(file_name, sentence_index, sentence,
                                        page_num, page_is_garbage))
             /\ sentence_index' = sentence_index + 1
             /\ sentence_pos' = sentence_pos + 1
             /\ UNCHANGED <<caught, parse_result, p_pc>>
  /\ UNCHANGED <<parseArgs, envVars, pages_text, page_num, page_is_garbage, sentences>>
  /\ UNCHANGED <<classVars, appVars>>
  /\ UNCHANGED callVars

\* FinalRecords without the check of parser.py:132
FinalRecords_NoFallback(name, records) == records

\* what parse_pdf_bytes returns after the loop (parser.py:132-143)
FinalRecords(name, records) ==
  IF records = <<>>
  THEN << FallbackRecord(name, Msg_NoSentences \o name, Err_NoSentences) >>
  ELSE records

\* parser.py:130-143: after the last page
ParseFinish ==
  /\ p_pc = "loop"
  /\ sentence_pos = Len(sentences)
  /\ page_num = Len(pages_text)
  /\ ParseReturn(FinalRecords(file_name, all_sentences))
  /\ UNCHANGED <<parseArgs, envVars, parseLocals, caught>>
  /\ UNCHANGED <<classVars, appVars>>
  /\ UNCHANGED callVars

ParseStep == ParseBegin \/ PageStep \/ SentenceStep \/ ParseFinish

(* ------------------------------------------------------------------ *)
(* classify_sentences (activity_classifier.py:63-154)                   *)
(* ------------------------------------------------------------------ *)

\* activity_classifier.py:92
ContextOpen ==
  <<" ","[","A","C","T","I","V","I","T","Y"," ","C","O","N","T","E","X","T",
    ":"," ">>

ContextClose ==
  <<"]">>

\* dict.get(key, default)
Get(r, key, default) == IF key \in DOMAIN r THEN r[key] ELSE default

\* activity_classifier.py:87-94
EnhancedText(sent_data) ==
  LET text == Get(sent_data, "activity_text", <<>>)
      context == Get(sent_data, "context", <<>>)
  IN IF context # <<>> /\ Len(Strip(context)) > 3
     THEN text \o ContextOpen \o context \o ContextClose
     ELSE text

\* dict(sent_data, activity_prediction=p) and sent_data.copy() with the key set
WithPrediction(sent_data, p) ==
  [k \in DOMAIN sent_data \cup {"activity_prediction"} |->
     IF k = "activity_prediction" THEN p ELSE sent_data[k]]

\* BatchSlice with the end of the slice one short: enhanced_texts[i:i + batch_size - 1]
BatchSlice_OneShort(texts, i, size) ==
  SubSeq(texts, i + 1, IF i + size - 1 < Len(texts) THEN i + size - 1 ELSE Len(texts))

\* enhanced_texts[i:i + batch_size], i counted from 0
BatchSlice(texts, i, size) ==
  SubSeq(texts, i + 1, IF i + size < Len(texts) THEN i + size ELSE Len(texts))

\* activity_classifier.py:141-145
BuildResults(data, predictions) ==
  [i \in 1..Len(data) |->
     WithPrediction(data[i], IF i <= Len(predictions) THEN predictions[i] ELSE 0)]

\* ZeroResults that keeps the labels of the batches classified before the failure
ZeroResults_KeepsLabels(data) == BuildResults(data, all_predictions)

\* activity_classifier.py:154
ZeroResults(data) == [i \in 1..Len(data) |-> WithPrediction(data[i], 0)]

ClassifyLocalsInit ==
  /\ enhanced_texts = <<>>
  /\ all_predictions = <<>>
  /\ batch_start = 0
  /\ model_calls = <<>>
  /\ classify_failed = FALSE
  /\ classify_result = <<>>

\* activity_classifier.py:78-103
ClassifyBegin ==
  /\ c_pc = "begin"
  /\ IF sentences_data = <<>>
     THEN /\ classify_result' = <<>>
          /\ c_pc' = "done"
          /\ UNCHANGED enhanced_texts
     ELSE /\ enhanced_texts' =
               [i \in 1..Len(sentences_data) |-> EnhancedText(sentences_data[i])]
          /\ c_pc' = "batches"
          /\ UNCHANGED classify_result
  /\ all_predictions' = <<>>
  /\ batch_start' = 0
  /\ UNCHANGED <<sentences_data, batch_size, model_calls, classify_failed>>
  /\ UNCHANGED <<envVars, parseVars, appVars>>
  /\ UNCHANGED callVars

\* activity_classifier.py:105-134: one batch, the model gives one label per text
BatchStep ==
  /\ c_pc = "batches"
  /\ batch_start < Len(enhanced_texts)
  /\ LET batch_texts == BatchSlice(enhanced_texts, batch_start, batch_size)
     IN \E batch_predictions \in [1..Len(batch_texts) -> {0, 1}] :
          /\ all_predictions' = all_predictions \o batch_predictions
          /\ model_calls' = Append(model_calls,
                                   [texts |-> batch_texts, labels |-> batch_predictions])
  /\ batch_start' = batch_start + batch_size
  /\ UNCHANGED <<sentences_data, batch_size, c_pc, enhanced_texts,
                 classify_failed, classify_result>>
  /\ UNCHANGED <<envVars, parseVars, appVars>>
  /\ UNCHANGED callVars

\* activity_classifier.py:112-128 raise (tokenizer or model), then :149-154
BatchFails ==
  /\ c_pc = "batches"
  /\ batch_start < Len(enhanced_texts)
  /\ classify_failed' = TRUE
  /\ classify_result' = ZeroResults(sentences_data)
  /\ c_pc' = "done"
  /\ UNCHANGED <<sentences_data, batch_size, enhanced_texts, all_predictions,
                 batch_start, model_calls>>
  /\ UNCHANGED <<envVars, parseVars, appVars>>
  /\ UNCHANGED callVars

\* activity_classifier.py:136-147: after the last batch
ClassifyFinish ==
  /\ c_pc = "batches"
  /\ batch_start >= Len(enhanced_texts)
  /\ classify_result' = BuildResults(sentences_data, all_predictions)
  /\ c_pc' = "done"
  /\ UNCHANGED <<sentences_data, batch_size, enhanced_texts, all_predictions,
                 batch_start, model_calls, classify_failed>>
  /\ UNCHANGED <<envVars, parseVars, appVars>>
  /\ UNCHANGED callVars

(* ------------------------------------------------------------------ *)
(* streamlit_app.py: process_files_and_classify                        *)
(* ------------------------------------------------------------------ *)

\* streamlit_app.py:153
Msg_TooLarge ==
  <<"F","i","l","e"," ","t","o","o"," ","l","a","r","g","e",":"," ">>

\* streamlit_app.py:157
Err_TooLarge ==
  <<"F","i","l","e"," ","s","i","z","e"," ","e","x","c","e","e","d","s"," ",
    "5","0","M","B"," ","l","i","m","i","t">>

\* max_size_mb of check_file_size (streamlit_app.py:96)
max_size_mb == 50

\* check_file_size without the limit
check_file_size_NoLimit(file_bytes) == TRUE

\* check_file_size (streamlit_app.py:96-99), on the number of bytes
check_file_size(file_bytes) == file_bytes <= max_size_mb * 1024 * 1024

DigitChars == <<"0","1","2","3","4","5","6","7","8","9">>

\* str(n) for a natural number
RECURSIVE IntToText(_)
IntToText(n) ==
  IF n < 10 THEN << DigitChars[n + 1] >>
  ELSE IntToText(n \div 10) \o << DigitChars[(n % 10) + 1] >>

\* f"{base_name}#{counter}{extension}" (streamlit_app.py:106-110)
NumberedName(filename, counter) ==
  LET dot == LastIndexOf(filename, ".")
      base_name == IF dot = 0 THEN filename ELSE SubSeq(filename, 1, dot - 1)
      extension == IF dot = 0 THEN <<>> ELSE SubSeq(filename, dot, Len(filename))
  IN base_name \o <<"#">> \o IntToText(counter) \o extension

\* get_unique_filename without the while loop: the counter stays 1
get_unique_filename_NoLoop(filename, existing_names) ==
  IF filename \notin Range(existing_names) THEN filename
  ELSE NumberedName(filename, 1)

\* get_unique_filename (streamlit_app.py:101-113): the loop stops at the first
\* counter whose name is free, at most Len(existing_names) + 1
get_unique_filename(filename, existing_names) ==
  IF filename \notin Range(existing_names) THEN filename
  ELSE LET free == {c \in 1..(Len(existing_names) + 1) :
                      NumberedName(filename, c) \notin Range(existing_names)}
       IN NumberedName(filename, MinOf(free))

\* the error entry of streamlit_app.py:150-158
TooLargeRecord(unique_name) ==
  [file_name |-> unique_name, activity_index |-> 0,
   activity_text |-> Msg_TooLarge \o unique_name, page_number |-> 1,
   document_name |-> DocumentName(unique_name), context |-> <<>>,
   error |-> Err_TooLarge]

\* [r for r in results if r.get('error') is None] (streamlit_app.py:207)
ValidSentences(rs) == SelectSeq(rs, LAMBDA r : Get(r, "error", None) = None)

\* ---- the files a user uploads ----

\* ---- display_all_results (streamlit_app.py:241-300) ----

\* extraction_results[:10] (streamlit_app.py:283)
PreviewRows == 10

\* r['activity_text'][:100] (streamlit_app.py:287)
PreviewChars == 100

\* the row of the preview for the record r (streamlit_app.py:284-298)
PreviewRow(r, classified) ==
  LET matching == SelectSeq(classified,
                            LAMBDA c : Get(c, "activity_index", None)
                                         = Get(r, "activity_index", None))
      shown == classified # <<>> /\ matching # <<>>
  IN [k \in {"Document", "Page", "Sentence", "Status"}
              \cup (IF shown THEN {"Is Activity"} ELSE {}) |->
        CASE k = "Document" -> r.document_name
          [] k = "Page" -> r.page_number
          [] k = "Sentence" ->
               IF Len(r.activity_text) > PreviewChars
               THEN SubSeq(r.activity_text, 1, PreviewChars) \o <<".", ".", ".">>
               ELSE r.activity_text
          [] k = "Status" ->
               IF r.error # None /\ r.error # <<>> THEN "Error" ELSE "Success"
          [] k = "Is Activity" ->
               IF Get(matching[1], "activity_prediction", None) = 1
               THEN "Yes" ELSE "No"]

\* display_data of display_all_results; no rows when it returns at line 247
display_all_results(extraction_results, classified) ==
  IF extraction_results = <<>> THEN <<>>
  ELSE [i \in 1..(IF Len(extraction_results) < PreviewRows
                  THEN Len(extraction_results) ELSE PreviewRows) |->
          PreviewRow(extraction_results[i], classified)]

\* the largest number of uploaded files
MaxFiles == 2

LimitBytes == max_size_mb * 1024 * 1024

\* an uploaded file: its name, whether read() works, its size, its decoding
UploadedFile(name, readable, size, pages) ==
  [name |-> name, readable |-> readable, size |-> size,
   decoded |-> [ok |-> TRUE, pages |-> pages, msg |-> <<>>]]

\* a file whose bytes the decoder refuses
BrokenFile(name, size) ==
  [name |-> name, readable |-> TRUE, size |-> size,
   decoded |-> [ok |-> FALSE, pages |-> <<>>, msg |-> DecoderMessage]]

SampleFiles ==
  { UploadedFile(File_A, TRUE, 1, <<Page_Two>>),
    UploadedFile(File_A, TRUE, 1, <<Page_Blank, Page_Short>>),
    UploadedFile(File_A, TRUE, LimitBytes + 1, <<Page_Two>>),
    UploadedFile(File_R, TRUE, LimitBytes, <<Page_Ocr>>),
    UploadedFile(File_R, FALSE, 1, <<Page_Two>>),
    UploadedFile(File_R, TRUE, 0, <<>>),
    BrokenFile(File_A, 1) }

UploadLists == UNION {[1..n -> SampleFiles] : n \in 1..MaxFiles}

\* main() up to the button (streamlit_app.py:27-67), run by any interaction
\* while no run is under way: the model is loaded unless an earlier run has
\* loaded it, the uploader gives its files, and with files in the uploader the
\* session takes them and the processing state is reset
MainPrologue(files) ==
  /\ a_pc \in {"idle", "done", "raised"}
  /\ model_loaded' \in (IF model_loaded THEN {TRUE} ELSE BOOLEAN)
  /\ pdf_uploader' = files
  /\ IF files # <<>>
     THEN /\ upload_files' = files
          /\ processing_complete' = FALSE
          /\ processing_results' = <<>>
          /\ classification_results' = <<>>
     ELSE UNCHANGED <<upload_files, processing_complete, processing_results,
                      classification_results>>

\* the files the user may have in the uploader at the next run: the same, none,
\* or one new file
NextUploads == {pdf_uploader, <<>>} \cup {<<f>> : f \in SampleFiles}

\* streamlit_app.py:27-79 and 117-127: the button was pressed
ProcessBegin ==
  /\ \E files \in {pdf_uploader} : MainPrologue(files)
  /\ upload_files' # <<>>
  /\ a_pc' = "files"
  /\ file_pos' = 0
  /\ results' = <<>>
  /\ processed_names' = <<>>
  /\ parsed_files' = <<>>
  /\ display_data' = <<>>
  /\ UNCHANGED <<envVars, parseVars, classVars>>
  /\ UNCHANGED callVars

\* streamlit_app.py:27-83: a run of main() in which the button is not pressed
\* (the uploader changed, a download button was clicked); lines 82-83 show
\* the results when processing_complete is set
Rerun ==
  /\ \E files \in NextUploads : MainPrologue(files)
  /\ a_pc' = "idle"
  /\ file_pos' = 0
  /\ results' = <<>>
  /\ processed_names' = <<>>
  /\ parsed_files' = <<>>
  /\ display_data' = IF processing_complete'
                     THEN display_all_results(processing_results',
                                              classification_results')
                     ELSE <<>>
  /\ UNCHANGED <<envVars, parseVars, classVars>>
  /\ UNCHANGED callVars

\* streamlit_app.py:130-162: the next file is read, named and checked; it gets
\* its error entry, or parse_pdf_bytes is called on it
FileBegin ==
  /\ a_pc = "files"
  /\ file_pos < Len(upload_files)
  /\ LET file == upload_files[file_pos + 1]
         file_bytes == IF file.readable THEN file.size ELSE 0
         unique_name == get_unique_filename(file.name, processed_names)
     IN /\ processed_names' = Append(processed_names, unique_name)
        /\ IF ~check_file_size(file_bytes)
           THEN /\ results' = results \o << TooLargeRecord(unique_name) >>
                /\ file_pos' = file_pos + 1
                /\ UNCHANGED <<a_pc, parseVars, parsed_files>>
           ELSE /\ a_pc' = "parse"
                /\ parsed_files' = Append(parsed_files, unique_name)
                /\ file_name' = unique_name
                /\ pdf_bytes' = file_bytes
                /\ decoded' = file.decoded
                /\ p_pc' = "begin"
                /\ pages_text' = <<>>
                /\ page_num' = 0
                /\ page_is_garbage' = FALSE
                /\ sentences' = <<>>
                /\ sentence_pos' = 0
                /\ all_sentences' = <<>>
                /\ sentence_index' = 0
                /\ caught' = None
                /\ parse_result' = <<>>
                /\ UNCHANGED <<results, file_pos>>
  /\ UNCHANGED <<sessionVars, display_data, envVars, classVars>>
  /\ UNCHANGED callVars

\* streamlit_app.py:162-179: parse_pdf_bytes has returned
FileEnd ==
  /\ a_pc = "parse"
  /\ p_pc = "done"
  /\ results' = results \o parse_result
  /\ file_pos' = file_pos + 1
  /\ a_pc' = "files"
  /\ p_pc' = "idle"
  /\ UNCHANGED <<parseArgs, parseLocals, caught, parse_result>>
  /\ UNCHANGED <<sessionVars, processed_names, parsed_files, display_data,
                 envVars, classVars>>
  /\ UNCHANGED callVars

\* streamlit_app.py:199-200: after the last file
StoreResults ==
  /\ a_pc = "files"
  /\ file_pos = Len(upload_files)
  /\ processing_results' = results
  /\ a_pc' = "classify"
  /\ UNCHANGED <<upload_files, pdf_uploader, model_loaded, classification_results,
                 processing_complete, file_pos, results, processed_names, parsed_files,
                 display_data>>
  /\ UNCHANGED <<envVars, parseVars, classVars>>
  /\ UNCHANGED callVars

\* streamlit_app.py:202-239.  classify_sentences returns one list; line 211
\* unpacks it into two names, which raises ValueError unless the list has two
\* elements, and then get_classification_summary (line 224) is given a record
\* in place of a list and raises AttributeError.  After a normal return
\* main() goes on to lines 82-83 and shows the results.
ClassifyStage ==
  /\ a_pc = "classify"
  /\ IF model_loaded /\ results # <<>> /\ ValidSentences(results) # <<>>
     THEN /\ \E failed \in BOOLEAN :
               \E labels \in [1..Len(ValidSentences(results)) -> {0, 1}] :
                 LET returned == IF failed THEN ZeroResults(ValidSentences(results))
                                 ELSE BuildResults(ValidSentences(results), labels)
                 IN IF Len(returned) = 2
                    THEN classification_results' = returned[1]
                    ELSE UNCHANGED classification_results
          /\ a_pc' = "raised"
          /\ UNCHANGED <<processing_complete, display_data>>
     ELSE /\ classification_results' = <<>>
          /\ processing_complete' = TRUE
          /\ a_pc' = "done"
          /\ display_data' = display_all_results(processing_results, <<>>)
  /\ UNCHANGED <<upload_files, pdf_uploader, model_loaded, processing_results, file_pos,
                 results, processed_names, parsed_files>>
  /\ UNCHANGED <<envVars, parseVars, classVars>>
  /\ UNCHANGED callVars

(* ------------------------------------------------------------------ *)
(* Specifications                                                       *)
(* ------------------------------------------------------------------ *)

\* the largest number of records given to classify_sentences alone
MaxRecords == 3

\* the largest batch_size given to classify_sentences alone
MaxBatch == 3

\* batch_size when the caller gives none (activity_classifier.py:65)
DefaultBatchSize == 16

Text_Met ==
  <<"W","e"," ","m","e","t"," ","D","r","."," ","L","e","e",".">>

Text_Left ==
  <<"T","h","e","n"," ","w","e"," ","l","e","f","t",".">>

Text_Ab ==
  <<"a","b">>

\* a record with the context field of the records classify_sentences reads
WithContext(r, context) ==
  [k \in DOMAIN r \cup {"context"} |-> IF k = "context" THEN context ELSE r[k]]

SampleRecords ==
  { SentenceRecord(File_A, 0, Text_Met, 1, FALSE),
    WithContext(SentenceRecord(File_A, 1, Text_Left, 1, FALSE),
                Text_Met \o <<" ">> \o Text_Left),
    WithContext(SentenceRecord(File_R, 0, Text_Left, 2, FALSE), Text_Ab) }

RecordLists == UNION {[1..n -> SampleRecords] : n \in 0..MaxRecords}

ParseIdle ==
  /\ file_name = <<>>
  /\ pdf_bytes = 0
  /\ decoded = [ok |-> TRUE, pages |-> <<>>, msg |-> <<>>]
  /\ p_pc = "idle"
  /\ ParseLocalsInit

ClassifyIdle ==
  /\ sentences_data = <<>>
  /\ batch_size = DefaultBatchSize
  /\ c_pc = "idle"
  /\ ClassifyLocalsInit

CallIdle ==
  /\ f_arg = <<>>
  /\ f_ret = <<>>
  /\ f_pc = "idle"

\* st.session_state as main() sets it up (streamlit_app.py:27-40)
SessionInit ==
  /\ processing_results = <<>>
  /\ classification_results = <<>>
  /\ processing_complete = FALSE

AppLocalsInit ==
  /\ a_pc = "idle"
  /\ file_pos = 0
  /\ results = <<>>
  /\ processed_names = <<>>
  /\ parsed_files = <<>>
  /\ display_data = <<>>

\* The application: files are uploaded, the model is loaded or not, and the
\* button runs process_files_and_classify.
Init ==
  /\ EnvInit
  /\ ParseIdle
  /\ ClassifyIdle
  /\ SessionInit
  /\ upload_files \in UploadLists
  /\ pdf_uploader = upload_files
  /\ model_loaded \in BOOLEAN
  /\ AppLocalsInit
  /\ CallIdle

Next ==
  \/ Rerun
  \/ ProcessBegin
  \/ FileBegin
  \/ ParseBegin
  \/ PageStep
  \/ SentenceStep
  \/ ParseFinish
  \/ FileEnd
  \/ StoreResults
  \/ ClassifyStage

Spec == Init /\ [][Next]_vars

\* parse_pdf_bytes alone, on every document of the bounds
InitParse ==
  /\ EnvInit
  /\ file_name \in FileNames
  /\ pdf_bytes \in {0, 1}   \* b'' or not: parser.py:46 reads no more of the bytes
  /\ decoded \in Decodings
  /\ p_pc = "begin"
  /\ ParseLocalsInit
  /\ ClassifyIdle
  /\ SessionInit
  /\ upload_files = <<>>
  /\ pdf_uploader = <<>>
  /\ model_loaded = FALSE
  /\ AppLocalsInit
  /\ CallIdle

NextParse == ParseBegin \/ PageStep \/ SentenceStep \/ ParseFinish

SpecParse == InitParse /\ [][NextParse]_vars

\* classify_sentences alone, on every list of records and batch size of the bounds
InitClassify ==
  /\ EnvInit
  /\ ParseIdle
  /\ sentences_data \in RecordLists
  /\ batch_size \in 1..MaxBatch
  /\ c_pc = "begin"
  /\ ClassifyLocalsInit
  /\ SessionInit
  /\ upload_files = <<>>
  /\ pdf_uploader = <<>>
  /\ model_loaded = TRUE
  /\ AppLocalsInit
  /\ CallIdle

NextClassify == ClassifyBegin \/ BatchStep \/ BatchFails \/ ClassifyFinish

SpecClassify == InitClassify /\ [][NextClassify]_vars

(* ------------------------------------------------------------------ *)
(* extract_sentences_from_text called on its own                        *)
(* ------------------------------------------------------------------ *)

Piece_We ==
  <<"W","e"," ","m","e","t"," ">>

Piece_Dr ==
  <<"D","r","."," ">>

Piece_dr ==
  <<"d","r","."," ">>

Piece_Lee ==
  <<"L","e","e"," ","l","e","f","t","!"," ">>

Piece_Pi ==
  <<"3",".","1","4"," ">>

Piece_Para ==
  <<"N","o","t","e","\n","\n">>

Piece_Eg ==
  <<"e",".","g","."," ","1",".","5"," "," ","k","m","\n">>

ExtractPieces ==
  {Piece_We, Piece_Dr, Piece_dr, Piece_Lee, Piece_Pi, Piece_Para, Piece_Eg}

\* the largest number of pieces of a page text
MaxPieces == 3

Text_Smith ==
  <<"D","r","."," ","S","m","i","t","h"," ","m","e","t"," ","P","r","o","f",
    "."," ","J","o","n","e","s","."," ","T","h","e","y"," ","a","g","r","e",
    "e","d",".">>

Text_Value ==
  <<"T","h","e"," ","v","a","l","u","e"," ","i","s"," ","3",".","1","4"," ",
    "a","n","d"," ","t","h","a","t","'","s"," ","f","i","n","a","l",".">>

\* page texts: every list of up to MaxPieces pieces, two whole texts, a blank page
ExtractTexts ==
  {Flatten(ps) : ps \in UNION {[1..n -> ExtractPieces] : n \in 0..MaxPieces}}
    \cup {Text_Smith, Text_Value, Page_Blank}

\* extract_sentences_from_text(f_arg): the value returned, with text after
\* line 319 (normalized), text after line 358 (protected) and
\* sentence_boundaries of line 361 (fragments)
CallExtract ==
  /\ f_pc = "extract"
  /\ f_ret' =
       At(LAMBDA normalized :
            At(LAMBDA protected :
                 [normalized |-> normalized, protected |-> protected,
                  fragments |-> SplitBoundaries(protected, 1),
                  value |-> extract_sentences_from_text(f_arg)],
               ProtectPeriods(normalized)),
          NormalizeText(f_arg))
  /\ f_pc' = "done"
  /\ UNCHANGED <<f_arg, envVars, parseVars, classVars, appVars>>

\* nothing runs but the one call
CallInit ==
  /\ PDF_AVAILABLE = TRUE
  /\ PDF_ERROR = None
  /\ ParseIdle
  /\ ClassifyIdle
  /\ SessionInit
  /\ upload_files = <<>>
  /\ pdf_uploader = <<>>
  /\ model_loaded = FALSE
  /\ AppLocalsInit
  /\ f_ret = <<>>

InitExtract ==
  /\ CallInit
  /\ f_arg \in ExtractTexts
  /\ f_pc = "extract"

NextExtract == CallExtract

SpecExtract == InitExtract /\ [][NextExtract]_vars

\* ---- is_sentence_garbage, called on its own ----

Bit_Cons ==
  <<"b","c","d","f","g","h","j">>

Bit_K == <<"K">>

Bit_Space == <<" ">>

Bit_Digits ==
  <<"1","2","3","4","5","6">>

Bit_Aa ==
  <<"a","a"," ","a">>

Bit_E == <<"e">>

SentenceBits == {Bit_Cons, Bit_K, Bit_Space, Bit_Digits, Bit_Aa, Bit_E}

MaxBits == 3

\* 20 times the same consonant
Text_Repeated == [i \in 1..20 |-> "x"]

\* a normal sentence of 20 characters
Text_Normal ==
  <<"T","h","e"," ","c","a","t"," ","s","a","t"," ",
    "o","n"," ","m","a","t","s",".">>

SentenceTexts ==
  {Flatten(bs) : bs \in UNION {[1..n -> SentenceBits] : n \in 0..MaxBits}}
    \cup {Text_Repeated, Text_Normal}

CallSentenceGarbage ==
  /\ f_pc = "is_sentence_garbage"
  /\ f_ret' = [value |-> is_sentence_garbage(f_arg)]
  /\ f_pc' = "done"
  /\ UNCHANGED <<f_arg, envVars, parseVars, classVars, appVars>>

InitSentenceGarbage ==
  /\ CallInit
  /\ f_arg \in SentenceTexts
  /\ f_pc = "is_sentence_garbage"

NextSentenceGarbage == CallSentenceGarbage

SpecSentenceGarbage == InitSentenceGarbage /\ [][NextSentenceGarbage]_vars

\* ---- is_ocr_garbage, called on its own ----

Part_Run ==
  <<"B","c","d","f","g","h","j","k","l","m"," ">>

Part_Pad == [i \in 1..30 |-> " "]

Part_Words ==
  <<"t","h","e"," ","c","a","t"," ","s","a","t"," ",
    "o","n"," ","a"," ","m","a","t"," ","a","n","d",
    " ","a","t","e","."," ">>

Part_Digits ==
  <<"0","1","2","3","4","5","6","7","8","9","0","1",
    "2","3","4","5","6","7","8","9","0","1","2","3",
    "4","5","6","7","8","9","0","1","2","3","4","5",
    "6","7","8","9">>

Part_NoVowel ==
  <<"b","c","d"," ","f","g","h"," ","j","k","l"," ",
    "m","n","p"," ","q","r","s"," ","t","v","w"," ",
    "x","z"," ","B","C","D"," ","F","G","H"," ","J",
    "K","L",","," ">>

OcrParts == {Part_Run, Part_Pad, Part_Words, Part_Digits, Part_NoVowel}

MaxParts == 4

OcrTexts ==
  {Flatten(ps) : ps \in UNION {[1..n -> OcrParts] : n \in 0..MaxParts}}

CallOcrGarbage ==
  /\ f_pc = "is_ocr_garbage"
  /\ f_ret' = [value |-> is_ocr_garbage(f_arg),
               divisors |-> IF f_arg = <<>> \/ Len(Strip(f_arg)) < 50 THEN {}
                            ELSE At(PageDivisors, Strip(LowerText(f_arg)))]
  /\ f_pc' = "done"
  /\ UNCHANGED <<f_arg, envVars, parseVars, classVars, appVars>>

InitOcrGarbage ==
  /\ CallInit
  /\ f_arg \in OcrTexts
  /\ f_pc = "is_ocr_garbage"

NextOcrGarbage == CallOcrGarbage

SpecOcrGarbage == InitOcrGarbage /\ [][NextOcrGarbage]_vars

\* ---- clean_sentence_text, called on its own ----

\* n times the letter c
Repeat(c, n) == [i \in 1..n |-> c]

\* what a sentence starts and ends with
Edges == {<<>>, <<" ">>, <<"\t", "\n">>}

\* what stands inside it
Middles == {<<>>, <<" ", " ">>, <<"\f">>, <<" ", "\f", " ">>}

\* lengths up to MaxSlack under and over max_length
MaxSlack == 2

\* a sentence of 40000 characters
Text_Long == Repeat("a", 40000)

CleanTexts ==
  {pre \o Repeat("a", n) \o mid \o <<"b">> \o post :
     pre \in Edges, post \in Edges, mid \in Middles,
     n \in (max_length - MaxSlack)..(max_length + MaxSlack)}
    \cup {Text_Long}

CallClean ==
  /\ f_pc = "clean_sentence_text"
  /\ f_ret' = [cleaned |-> At(CollapseBlanks, re_sub(Rule("control", <<>>), f_arg)),
               value |-> clean_sentence_text(f_arg)]
  /\ f_pc' = "done"
  /\ UNCHANGED <<f_arg, envVars, parseVars, classVars, appVars>>

InitClean ==
  /\ CallInit
  /\ f_arg \in CleanTexts
  /\ f_pc = "clean_sentence_text"

NextClean == CallClean

SpecClean == InitClean /\ [][NextClean]_vars

\* ---- get_unique_filename, called for the files of one batch ----

\* an uploaded name of the form base#k.ext
File_A1 ==
  <<"a","#","1",".","p","d","f">>

\* an uploaded name without extension
File_N ==
  <<"n","o","t","e","s">>

UploadNames == {File_A, File_A1, File_N, File_R}

MaxNames == 3

NameLists == UNION {[1..n -> UploadNames] : n \in 0..MaxNames}

\* streamlit_app.py:129-141: f_arg holds the names of the uploaded files, f_ret
\* is processed_names
UniqueStep ==
  /\ f_pc = "get_unique_filename"
  /\ Len(f_ret) < Len(f_arg)
  /\ f_ret' = Append(f_ret, get_unique_filename(f_arg[Len(f_ret) + 1], f_ret))
  /\ f_pc' = IF Len(f_ret) + 1 = Len(f_arg) THEN "done" ELSE f_pc
  /\ UNCHANGED <<f_arg, envVars, parseVars, classVars, appVars>>

InitUnique ==
  /\ CallInit
  /\ f_arg \in NameLists
  /\ f_pc = "get_unique_filename"

NextUnique == UniqueStep

SpecUnique == InitUnique /\ [][NextUnique]_vars

\* ---- lines 199-239 of process_files_and_classify on their own: the stage
\* ---- that follows the loop over the files, given the flag model_loaded and
\* ---- the list results

\* records the list results is given: two error-free sentence records with
\* the same activity_index in two files, a sentence record of a flagged page,
\* and a fallback record
StageRecords ==
  { SentenceRecord(File_A, 0, Text_Met, 1, FALSE),
    SentenceRecord(File_R, 0, Text_Left, 1, FALSE),
    SentenceRecord(File_A, 1, Text_Left, 2, TRUE),
    FallbackRecord(File_R, Msg_NoSentences \o File_R, Err_NoSentences) }

StageLists == UNION {[1..n -> StageRecords] : n \in 1..MaxRecords}

\* streamlit_app.py:199-239 on f_arg, from the session of lines 27-40; f_ret
\* is the session it leaves and whether it raised.  classify_sentences
\* returns one list; line 211 unpacks it into two names.
CallStage ==
  /\ f_pc = "process_files_and_classify"
  /\ LET valid_sentences == ValidSentences(f_arg.results)
     IN IF f_arg.model_loaded /\ f_arg.results # <<>> /\ valid_sentences # <<>>
        THEN \E failed \in BOOLEAN :
               \E labels \in [1..Len(valid_sentences) -> {0, 1}] :
                 LET returned == IF failed THEN ZeroResults(valid_sentences)
                                 ELSE BuildResults(valid_sentences, labels)
                 IN f_ret' = [raised |-> TRUE,
                              processing_results |-> f_arg.results,
                              classification_results |->
                                IF Len(returned) = 2 THEN returned[1]
                                ELSE classification_results,
                              processing_complete |-> processing_complete]
        ELSE f_ret' = [raised |-> FALSE,
                       processing_results |-> f_arg.results,
                       classification_results |-> <<>>,
                       processing_complete |-> TRUE]
  /\ f_pc' = "done"
  /\ UNCHANGED <<f_arg, envVars, parseVars, classVars, appVars>>

InitStage ==
  /\ CallInit
  /\ f_arg \in [model_loaded : BOOLEAN, results : StageLists]
  /\ f_pc = "process_files_and_classify"

NextStage == CallStage

SpecStage == InitStage /\ [][NextStage]_vars

\* ---- display_all_results on its own, given the two lists it reads from
\* ---- the session ----

\* processing_results with, as classification_results, its error-free records
\* each with a prediction, or nothing
PreviewSessions ==
  UNION {{[processing_results |-> rs, classification_results |-> <<>>]}
           \cup {[processing_results |-> rs,
                  classification_results |-> BuildResults(ValidSentences(rs), labels)] :
                   labels \in [1..Len(ValidSentences(rs)) -> {0, 1}]} :
         rs \in StageLists}

\* streamlit_app.py:241-300
CallDisplay ==
  /\ f_pc = "display_all_results"
  /\ f_ret' = [display_data |->
                 display_all_results(f_arg.processing_results,
                                     f_arg.classification_results)]
  /\ f_pc' = "done"
  /\ UNCHANGED <<f_arg, envVars, parseVars, classVars, appVars>>

InitPreview ==
  /\ CallInit
  /\ f_arg \in PreviewSessions
  /\ f_pc = "display_all_results"

NextPreview == CallDisplay

SpecPreview == InitPreview /\ [][NextPreview]_vars

(* ------------------------------------------------------------------ *)
(* Properties of parse_pdf_bytes                                        *)
(* ------------------------------------------------------------------ *)

\* parse_pdf_bytes has returned parse_result
Returned == p_pc = "done"

\* the decoder gave the page texts of a non-empty document
ExtractionOk == pdf_bytes > 0 /\ PDF_AVAILABLE /\ decoded.ok

\* the sentences of page k that are neither too short nor sentence garbage
AcceptedOnPage(pages, k) ==
  IF Strip(pages[k]) = <<>> THEN <<>>
  ELSE At(LAMBDA ss :
            SelectSeq(ss, LAMBDA s : /\ Len(Strip(s)) >= MinSentenceLen
                                     /\ ~is_sentence_garbage(s)),
          extract_sentences_from_text(pages[k]))

\* one record per accepted sentence of the pages from page k on, numbered from index
RECURSIVE ExpectedFrom(_, _, _, _)
ExpectedFrom(name, pages, k, index) ==
  IF k > Len(pages) THEN <<>>
  ELSE At(LAMBDA accepted :
            SubSeq([j \in 1..Len(accepted) |->
                      SentenceRecord(name, index + j - 1, accepted[j], k,
                                     is_ocr_garbage(pages[k]))],
                   1, Len(accepted))
              \o ExpectedFrom(name, pages, k + 1, index + Len(accepted)),
          AcceptedOnPage(pages, k))

\* the records of the accepted sentences of the decoded document
ExpectedRecords == ExpectedFrom(file_name, decoded.pages, 1, 0)

\* the values of one field along a list of records
FieldOf(records, field) ==
  SubSeq([i \in 1..Len(records) |-> records[i][field]], 1, Len(records))

IndexContiguous(records) ==
  \A i \in 1..Len(records) : records[i].activity_index = i - 1

\* C1: the activity_index values of the records parse_pdf_bytes returns are
\* 0..N-1 in list order, a fallback record included, and while the loop runs
\* the next index is the number of records accepted so far, whatever was skipped.
C1_IndexContiguity ==
  /\ sentence_index = Len(all_sentences)
  /\ IndexContiguous(all_sentences)
  /\ Returned => Len(parse_result) >= 1 /\ IndexContiguous(parse_result)

\* parse_pdf_bytes returned after a blank first page and a later page whose
\* sentences were all taken by the loop
C1_Witness ==
  /\ Returned
  /\ page_num = 2
  /\ Strip(pages_text[1]) = <<>>
  /\ sentences # <<>>
  /\ sentence_pos = Len(sentences)

\* C2: for a document whose pages are extracted and that has an accepted
\* sentence, parse_pdf_bytes returns one record per accepted sentence, in page
\* order and in-page order, and no fallback record.
C2_OneRecordPerAccepted ==
  (Returned /\ ExtractionOk /\ ExpectedRecords # <<>>)
    => /\ FieldOf(parse_result, "activity_text")
            = FieldOf(ExpectedRecords, "activity_text")
       /\ \A i \in 1..Len(parse_result) :
            parse_result[i].error \in {None, Err_OcrIssues}

\* C3: when no sentence survives (empty bytes, no page, only blank pages, only
\* sentences that are too short or garbage), parse_pdf_bytes returns exactly
\* one record, with activity_index 0 and an error that is not None.
C3_OneFallback ==
  (Returned /\ (pdf_bytes = 0 \/ (ExtractionOk /\ ExpectedRecords = <<>>)))
    => /\ Len(parse_result) = 1
       /\ parse_result[1].activity_index = 0
       /\ parse_result[1].error # None

\* the loop ran over every page of a document with text and accepted nothing
C3_Witness ==
  /\ Returned
  /\ caught = None
  /\ page_num > 0
  /\ page_num = Len(pages_text)
  /\ \E k \in 1..Len(pages_text) : Strip(pages_text[k]) # <<>>
  /\ all_sentences = <<>>

SixFields ==
  {"file_name", "activity_index", "activity_text", "page_number",
   "document_name", "error"}

\* a record with the six fields, each with a value of the document
WellFormed(r) ==
  /\ DOMAIN r = SixFields
  /\ r.file_name = file_name
  /\ r.document_name = DocumentName(file_name)
  /\ r.activity_index \in Nat
  /\ r.page_number \in Nat \ {0}
  /\ r.activity_text # <<>>

\* C4: parse_pdf_bytes never raises: until it returns it can take a step, an
\* exception of the decoder or of the loop gives a list of exactly one record
\* with activity_index 0 whose error carries the message of the exception, and
\* every returned list is non-empty with six-field records.
C4_NeverRaises ==
  /\ p_pc \in {"begin", "loop"} => ENABLED NextParse
  /\ Returned =>
       /\ Len(parse_result) >= 1
       /\ \A i \in 1..Len(parse_result) : WellFormed(parse_result[i])
       /\ caught # None =>
            /\ Len(parse_result) = 1
            /\ parse_result[1].activity_index = 0
            /\ parse_result[1].error = Err_Parsing \o caught

\* the loop raised on the second page of a document
C4_Witness ==
  /\ Returned
  /\ caught = Err_UnboundLocal
  /\ page_num = 2
  /\ parse_result[1].error = Err_Parsing \o Err_UnboundLocal

\* C5: every activity_text of every record parse_pdf_bytes returns is non-empty
\* and ends with '.', '!' or '?'.
C5_TextEndsInPunctuation ==
  Returned =>
    \A i \in 1..Len(parse_result) :
      /\ parse_result[i].activity_text # <<>>
      /\ parse_result[i].activity_text[Len(parse_result[i].activity_text)]
           \in SentencePunct

\* the non-empty texts joined by single spaces
RECURSIVE JoinNonEmpty(_)
JoinNonEmpty(texts) ==
  IF texts = <<>> THEN <<>>
  ELSE IF Head(texts) = <<>> THEN JoinNonEmpty(Tail(texts))
  ELSE IF JoinNonEmpty(Tail(texts)) = <<>> THEN Head(texts)
  ELSE Head(texts) \o <<" ">> \o JoinNonEmpty(Tail(texts))

\* previous text, own text, next text of record i, joined
ContextAt(records, i) ==
  JoinNonEmpty(<< IF i > 1 THEN records[i - 1].activity_text ELSE <<>>,
                  records[i].activity_text,
                  IF i < Len(records) THEN records[i + 1].activity_text ELSE <<>> >>)

\* C6: each record parse_pdf_bytes returns carries a context, the texts of the
\* previous record, of the record and of the next record joined by single spaces.
C6_ContextOfNeighbours ==
  Returned =>
    \A i \in 1..Len(parse_result) :
      /\ "context" \in DOMAIN parse_result[i]
      /\ parse_result[i].context = ContextAt(parse_result, i)

\* C7: every sentence accepted from a page is returned, with the error
\* 'Possible OCR issues on page' when is_ocr_garbage flags the page and with
\* error None when it does not.
C7_GarbagePageFlagsOnly ==
  (Returned /\ ExtractionOk) =>
    \A j \in 1..Len(ExpectedRecords) :
      \E i \in 1..Len(parse_result) :
        /\ parse_result[i].activity_text = ExpectedRecords[j].activity_text
        /\ parse_result[i].error = ExpectedRecords[j].error

\* C8: the page_number values of the returned records are the 1-based positions
\* of the pages of the accepted sentences, blank pages counted, and they never
\* decrease along the list.
C8_PageNumbers ==
  (Returned /\ ExtractionOk /\ ExpectedRecords # <<>>)
    => /\ FieldOf(parse_result, "page_number")
            = FieldOf(ExpectedRecords, "page_number")
       /\ \A i \in 1..(Len(parse_result) - 1) :
            parse_result[i].page_number <= parse_result[i + 1].page_number

(* ------------------------------------------------------------------ *)
(* Properties of process_files_and_classify                             *)
(* ------------------------------------------------------------------ *)

\* the records of a list that carry a file name
RecordsOf(records, name) == SelectSeq(records, LAMBDA r : r.file_name = name)

\* the position of a unique name in processed_names
FileOf(name) == CHOOSE k \in 1..Len(processed_names) : processed_names[k] = name

\* a list of a single record with activity_index 0 and an error
SingleError(records) ==
  /\ Len(records) = 1
  /\ records[1].activity_index = 0
  /\ records[1].error # None

Unreadable(file) == ~file.readable

TooLarge(file) == file.readable /\ file.size > LimitBytes

ParsingFails(file) == file.readable /\ ~TooLarge(file) /\ ~file.decoded.ok

\* C9: every file the loop of process_files_and_classify has passed has at
\* least one record in results, the records are in upload order, a file that
\* cannot be read, is over 50 MB or fails to parse has a single record with
\* activity_index 0 and an error, a file over 50 MB is never given to
\* parse_pdf_bytes, and after the last file processing_results is this list.
C9_FilesAreIsolated ==
  /\ file_pos <= Len(processed_names)
  /\ \A k \in 1..file_pos :
       /\ Len(RecordsOf(results, processed_names[k])) >= 1
       /\ (Unreadable(upload_files[k]) \/ TooLarge(upload_files[k])
             \/ ParsingFails(upload_files[k]))
            => SingleError(RecordsOf(results, processed_names[k]))
       /\ TooLarge(upload_files[k]) => processed_names[k] \notin Range(parsed_files)
  /\ \A i \in 1..Len(results) :
       /\ results[i].file_name \in Range(processed_names)
       /\ \A j \in 1..(i - 1) :
            FileOf(results[j].file_name) <= FileOf(results[i].file_name)
  /\ a_pc \in {"classify", "done", "raised"}
       => file_pos = Len(upload_files) /\ processing_results = results

\* an oversized file, then a file the decoder refuses: the results are stored
\* with one record for each
C9_Witness ==
  /\ a_pc = "classify"
  /\ Len(upload_files) = 2
  /\ TooLarge(upload_files[1])
  /\ ParsingFails(upload_files[2])
  /\ Len(parsed_files) = 1
  /\ Len(processing_results) = 2

(* ------------------------------------------------------------------ *)
(* Properties of classify_sentences                                     *)
(* ------------------------------------------------------------------ *)

\* the texts given to the model, batch after batch
RECURSIVE TextsOfCalls(_)
TextsOfCalls(calls) ==
  IF calls = <<>> THEN <<>> ELSE Head(calls).texts \o TextsOfCalls(Tail(calls))

\* the labels the model gave, batch after batch
RECURSIVE LabelsOfCalls(_)
LabelsOfCalls(calls) ==
  IF calls = <<>> THEN <<>> ELSE Head(calls).labels \o LabelsOfCalls(Tail(calls))

\* C10: when the model labels every batch, classify_sentences returns one
\* result per input record in input order, each the input record with
\* activity_prediction set to the label the model gave for its text, and the
\* batches are the texts of the records in order, each once, every batch but
\* the last of batch_size texts and the last of at least one.
C10_OneResultPerRecord ==
  (c_pc = "done" /\ ~classify_failed) =>
    /\ Len(classify_result) = Len(sentences_data)
    /\ TextsOfCalls(model_calls)
         = SubSeq([i \in 1..Len(sentences_data) |-> EnhancedText(sentences_data[i])],
                  1, Len(sentences_data))
    /\ \A b \in 1..Len(model_calls) :
         /\ Len(model_calls[b].texts) >= 1
         /\ Len(model_calls[b].texts) <= batch_size
         /\ b < Len(model_calls) => Len(model_calls[b].texts) = batch_size
    /\ \A i \in 1..Len(classify_result) :
         /\ DOMAIN classify_result[i]
              = DOMAIN sentences_data[i] \cup {"activity_prediction"}
         /\ \A k \in DOMAIN sentences_data[i] :
              classify_result[i][k] = sentences_data[i][k]
         /\ classify_result[i].activity_prediction
              = LabelsOfCalls(model_calls)[i]

\* three records in batches of two: a full batch and a partial one, with both labels
C10_Witness ==
  /\ c_pc = "done"
  /\ ~classify_failed
  /\ Len(sentences_data) = 3
  /\ batch_size = 2
  /\ Len(model_calls) = 2
  /\ classify_result[1].activity_prediction = 0
  /\ classify_result[3].activity_prediction = 1

\* C11: when the tokenizer or the model raises at a batch, classify_sentences
\* returns one result per input record in input order, each the input record
\* with activity_prediction 0, whatever labels earlier batches were given, and
\* no input record has gained a field.
C11_FailureGivesZeros ==
  /\ (c_pc = "done" /\ classify_failed) =>
       /\ Len(classify_result) = Len(sentences_data)
       /\ \A i \in 1..Len(classify_result) :
            /\ DOMAIN classify_result[i]
                 = DOMAIN sentences_data[i] \cup {"activity_prediction"}
            /\ \A k \in DOMAIN sentences_data[i] :
                 classify_result[i][k] = sentences_data[i][k]
            /\ classify_result[i].activity_prediction = 0
  /\ \A i \in 1..Len(sentences_data) :
       "activity_prediction" \notin DOMAIN sentences_data[i]

\* the second batch raised after the model had labelled a record of the first with 1
C11_Witness ==
  /\ c_pc = "done"
  /\ classify_failed
  /\ Len(model_calls) = 1
  /\ Len(sentences_data) > Len(all_predictions)
  /\ \E i \in 1..Len(all_predictions) : all_predictions[i] = 1

(* ------------------------------------------------------------------ *)
(* Properties of extract_sentences_from_text                            *)
(* ------------------------------------------------------------------ *)

\* needle is a contiguous piece of hay
IsPieceOf(needle, hay) ==
  \E j \in 1..(Len(hay) - Len(needle) + 1) :
    SubSeq(hay, j, j + Len(needle) - 1) = needle

\* every newline turned into a space
NewlinesToSpaces(text) ==
  SubSeq([i \in 1..Len(text) |-> IF text[i] = "\n" THEN " " ELSE text[i]],
         1, Len(text))

\* a sentence without the '.' at its end, if it has one
WithoutTerminal(s) ==
  IF s # <<>> /\ s[Len(s)] = "." THEN SubSeq(s, 1, Len(s) - 1) ELSE s

\* C12: restoring the placeholders of the protected text gives the normalized
\* text back, character for character, and every returned sentence is a
\* contiguous piece of the normalized text with its newlines turned into
\* spaces, as it is or with a '.' appended.
C12_ProtectionReversible ==
  f_pc = "done" =>
    /\ RestorePeriods(f_ret.protected) = f_ret.normalized
    /\ \A k \in 1..Len(f_ret.value) :
         \/ IsPieceOf(f_ret.value[k], NewlinesToSpaces(f_ret.normalized))
         \/ IsPieceOf(WithoutTerminal(f_ret.value[k]),
                      NewlinesToSpaces(f_ret.normalized))

\* the listed abbreviations as they are written in a text
AbbreviationWords == {AbbrPattern(abbreviations[k]) : k \in DOMAIN abbreviations}

\* text[j] is the period of a listed abbreviation, written in any case as a
\* whole word, and a space follows it
AbbrPeriodAt(text, j) ==
  /\ text[j] = "."
  /\ j < Len(text)
  /\ text[j + 1] = " "
  /\ \E w \in AbbreviationWords :
       /\ j - Len(w) >= 1
       /\ LowerText(SubSeq(text, j - Len(w), j - 1)) = LowerText(w)
       /\ (j - Len(w) = 1 \/ ~IsWord(text[j - Len(w) - 1]))

\* text[j] starts a run of '.', '!', '?' that whitespace or the end follows
RunStartAt(text, j) ==
  /\ text[j] \in SentencePunct
  /\ (j = 1 \/ text[j - 1] \notin SentencePunct)
  /\ \/ RunEnd(text, j, SentencePunct) = Len(text)
     \/ IsSpace(text[RunEnd(text, j, SentencePunct) + 1])

\* C13: the sentence boundaries of a text are its runs of '.', '!', '?' before
\* whitespace or the end, those at the period of a listed abbreviation
\* followed by a space left out; "Dr. Smith met Prof. Jones. They agreed."
\* gives exactly "Dr. Smith met Prof. Jones." and "They agreed.".
C13_NoBoundaryAtAbbreviation ==
  f_pc = "done" =>
    /\ Len(f_ret.fragments)
         = 1 + Cardinality({j \in 1..Len(f_ret.normalized) :
                              /\ RunStartAt(f_ret.normalized, j)
                              /\ ~AbbrPeriodAt(f_ret.normalized, j)})
    /\ f_arg = Text_Smith =>
         f_ret.value = << SubSeq(Text_Smith, 1, 26), SubSeq(Text_Smith, 28, 39) >>

\* a text with abbreviations in both cases, each followed by a space and more
\* text, was split, and gave a sentence
C13_Witness ==
  /\ f_pc = "done"
  /\ f_arg = Piece_We \o Piece_dr \o Piece_Lee
  /\ Len(f_ret.fragments) = 2
  /\ Len(f_ret.value) = 1

\* the number of periods of a text that stand between two digits
DigitDots(text) ==
  Cardinality({j \in 2..(Len(text) - 1) :
                 /\ text[j] = "."
                 /\ text[j - 1] \in Digits
                 /\ text[j + 1] \in Digits})

RECURSIVE DigitDotsIn(_)
DigitDotsIn(texts) ==
  IF texts = <<>> THEN 0 ELSE DigitDots(Head(texts)) + DigitDotsIn(Tail(texts))

\* C14: no fragment of the split ends at a period between two digits: restored,
\* the fragments hold every digits.digits period of the normalized text; no
\* returned sentence holds a placeholder in place of a period; and "The value
\* is 3.14 and that's final." is returned whole, as one sentence.
C14_NoBoundaryInNumber ==
  f_pc = "done" =>
    /\ DigitDotsIn(SubSeq([k \in 1..Len(f_ret.fragments) |->
                             RestorePeriods(f_ret.fragments[k])],
                          1, Len(f_ret.fragments)))
         = DigitDots(f_ret.normalized)
    /\ \A k \in 1..Len(f_ret.value) :
         /\ ~IsPieceOf(DECIMALDOT, f_ret.value[k])
         /\ ~IsPieceOf(DOTPLACEHOLDER, f_ret.value[k])
    /\ f_arg = Text_Value => f_ret.value = << Text_Value >>

\* a text with two numbers gave a sentence that holds both
C14_Witness ==
  /\ f_pc = "done"
  /\ f_arg = Piece_We \o Piece_Pi \o Piece_Eg
  /\ Len(f_ret.value) = 1
  /\ DigitDots(f_ret.value[1]) = 2

\* the letters of a text, in lower case
LettersOf(text) == SelectSeq(LowerText(text), LAMBDA c : c \in LowerSet)

\* the letters of sents[k], sents[k+1], ... occur in hay one after the other, from position from on
RECURSIVE InOrderFrom(_, _, _, _)
InOrderFrom(sents, k, hay, from) ==
  IF k > Len(sents) THEN TRUE
  ELSE At(LAMBDA needle :
            At(LAMBDA starts :
                 IF starts = {} THEN FALSE
                 ELSE InOrderFrom(sents, k + 1, hay, MinOf(starts) + Len(needle)),
               {j \in from..(Len(hay) - Len(needle) + 1) :
                  SubSeq(hay, j, j + Len(needle) - 1) = needle}),
          LettersOf(sents[k]))

\* C19: every sentence extract_sentences_from_text returns has at least 5
\* characters, ends with '.', '!' or '?', starts and ends with no whitespace and
\* holds no newline; the sentences come in the order of their text on the page;
\* a text of whitespace only, or an empty text, gives the empty list.
C19_SentenceShape ==
  f_pc = "done" =>
    /\ \A k \in 1..Len(f_ret.value) :
         /\ Len(f_ret.value[k]) >= 5
         /\ f_ret.value[k][Len(f_ret.value[k])] \in SentencePunct
         /\ ~IsSpace(f_ret.value[k][1])
         /\ "\n" \notin Range(f_ret.value[k])
    /\ At(LAMBDA hay : InOrderFrom(f_ret.value, 1, hay, 1), LettersOf(f_arg))
    /\ (\A i \in DOMAIN f_arg : IsSpace(f_arg[i])) => f_ret.value = <<>>

\* a text of a short paragraph and two sentences gave the two sentences
C19_Witness ==
  /\ f_pc = "done"
  /\ f_arg = Piece_Para \o Piece_Lee \o Piece_Eg
  /\ Len(f_ret.value) = 2

(* ------------------------------------------------------------------ *)
(* Properties of the garbage detectors                                  *)
(* ------------------------------------------------------------------ *)

\* the sentence without its leading and trailing whitespace has fewer than 5 characters
TooShort(s) == Len(Strip(s)) < 5

\* under 0.3 of the more than 10 non-space characters are letters
FewLetters(s) ==
  /\ Len(WithoutSpaces(Strip(s))) > 10
  /\ 10 * CountIn(s, Letters) < 3 * Len(WithoutSpaces(Strip(s)))

\* 8 or more consonants, in either case, stand in a row
LongConsonantRun(s) == \E i \in DOMAIN s : ConsonantRunAt(LowerText(s), i, 8)

\* fewer than 3 distinct characters besides spaces, letter case ignored
FewDistinct(s) == Cardinality(Range(WithoutSpaces(LowerText(Strip(s))))) < 3

\* more than 5 letters and no vowel, in either case
NoVowel(s) == CountIn(s, Letters) > 5 /\ CountIn(LowerText(s), Vowels) = 0

\* C15, amended: is_sentence_garbage returns true exactly when the stripped
\* sentence has fewer than 5 characters, or under 0.3 of its more than 10
\* non-space characters are letters, or it has a run of 8 or more consonants,
\* or it has fewer than 3 distinct non-space characters and the stripped
\* sentence, spaces included, has more than 10 characters, or it has more than
\* 5 letters and no vowel; 20 repeated consonants are garbage, a normal
\* sentence of that length is not.
C15_SentenceGarbage ==
  f_pc = "done" =>
    /\ f_ret.value = (\/ TooShort(f_arg)
                      \/ FewLetters(f_arg)
                      \/ LongConsonantRun(f_arg)
                      \/ FewDistinct(f_arg) /\ Len(Strip(f_arg)) > 10
                      \/ NoVowel(f_arg))
    /\ f_arg = Text_Repeated => f_ret.value = TRUE
    /\ f_arg = Text_Normal => f_ret.value = FALSE

\* C15 as stated: the length over 10 of the fourth condition is that of the
\* space-stripped sentence.
C15_AsStated ==
  f_pc = "done" =>
    f_ret.value = (\/ TooShort(f_arg)
                   \/ FewLetters(f_arg)
                   \/ LongConsonantRun(f_arg)
                   \/ FewDistinct(f_arg) /\ Len(WithoutSpaces(Strip(f_arg))) > 10
                   \/ NoVowel(f_arg))

\* a sentence of 7 consonants, which only the last condition makes garbage
C15_Witness ==
  /\ f_pc = "done"
  /\ f_arg = Bit_Cons
  /\ f_ret.value = TRUE

\* the conditions of is_ocr_garbage on a text t
ManyRuns(t) == ConsonantRuns(LowerText(t), 10) > 1

LowAlpha(t) ==
  /\ Len(WithoutSpaces(t)) > 100
  /\ 10 * CountIn(t, Letters) < 4 * Len(WithoutSpaces(t))

HighSymbols(t) ==
  /\ Len(t) > 100
  /\ 10 * Cardinality({i \in DOMAIN t : t[i] \notin Letters /\ ~IsSpace(t[i])})
       > 7 * Len(t)

LowVowels(t) ==
  /\ CountIn(t, Letters) > 100
  /\ 100 * CountIn(LowerText(t), Vowels) < 8 * CountIn(t, Letters)

OcrConditions(t) == ManyRuns(t) \/ LowAlpha(t) \/ HighSymbols(t) \/ LowVowels(t)

\* C16, amended: with the text taken without its leading and trailing
\* whitespace, is_ocr_garbage returns false when it has fewer than 50
\* characters, and otherwise true exactly when it has more than one run of 10
\* or more consonants, or letters are under 0.4 of its more than 100 non-space
\* characters, or characters that are neither letters nor whitespace are over
\* 0.7 of its more than 100 characters, or vowels are under 0.08 of its more
\* than 100 letters; every division it evaluates has a denominator over 0.
C16_OcrGarbage ==
  f_pc = "done" =>
    /\ f_ret.value = (Len(Strip(f_arg)) >= 50 /\ OcrConditions(Strip(f_arg)))
    /\ \A d \in f_ret.divisors : d > 0

\* C16 as stated: the lengths and the conditions are those of the text as given.
C16_AsStated ==
  f_pc = "done" =>
    f_ret.value = (Len(f_arg) >= 50 /\ OcrConditions(f_arg))

\* a text of over 100 characters, with one consonant run, that the ratio of
\* digits alone makes garbage
C16_Witness ==
  /\ f_pc = "done"
  /\ f_arg = Part_Run \o Part_Digits \o Part_Digits \o Part_Digits
  /\ f_ret.value = TRUE
  /\ f_ret.divisors # {}

(* ------------------------------------------------------------------ *)
(* Properties of clean_sentence_text                                    *)
(* ------------------------------------------------------------------ *)

\* s ends with '... [TRUNCATED]'
EndsTruncated(s) ==
  /\ Len(s) >= 15
  /\ SubSeq(s, Len(s) - 14, Len(s))
       = <<".",".","."," ","[","T","R","U","N","C","A","T","E","D","]">>

\* C17: clean_sentence_text returns at most 32000 + 15 characters; a sentence
\* whose cleaned text (control characters removed, stripped, whitespace runs
\* turned into one space) has more than 32000 characters gives its first 32000
\* cleaned characters followed by '... [TRUNCATED]', so a sentence of 40000
\* letters gives 32015 characters; any other sentence gives its cleaned text,
\* whole and without the suffix.
C17_TruncatedLength ==
  f_pc = "done" =>
    /\ Len(f_ret.value) <= 32000 + 15
    /\ Len(f_ret.cleaned) > 32000 =>
         /\ SubSeq(f_ret.value, 1, 32000) = SubSeq(f_ret.cleaned, 1, 32000)
         /\ Len(f_ret.value) = 32015
         /\ EndsTruncated(f_ret.value)
    /\ Len(f_ret.cleaned) <= 32000 =>
         /\ f_ret.value = f_ret.cleaned
         /\ ~EndsTruncated(f_ret.value)
    /\ f_arg = Text_Long => Len(f_ret.value) = 32015 /\ EndsTruncated(f_ret.value)

\* a sentence of more than 32000 characters whose cleaned text has exactly
\* 32000 was returned whole
C17_Witness ==
  /\ f_pc = "done"
  /\ Len(f_arg) > 32000
  /\ Len(f_ret.cleaned) = 32000
  /\ f_ret.value = f_ret.cleaned

(* ------------------------------------------------------------------ *)
(* Properties of get_unique_filename                                    *)
(* ------------------------------------------------------------------ *)

\* C18: the names assigned so far in a batch are pairwise distinct; each is
\* the uploaded name when no earlier file was assigned that name, and
\* otherwise base#k.ext for the smallest k >= 1 whose name no earlier file was
\* assigned; the search ends at a k no larger than the file's position.
C18_NamesAreDistinct ==
  f_pc \in {"get_unique_filename", "done"} =>
    /\ Len(f_ret) <= Len(f_arg)
    /\ \A p, q \in 1..Len(f_ret) : p # q => f_ret[p] # f_ret[q]
    /\ \A p \in 1..Len(f_ret) :
         IF \A q \in 1..(p - 1) : f_ret[q] # f_arg[p]
         THEN f_ret[p] = f_arg[p]
         ELSE \E k \in 1..p :
                /\ f_ret[p] = NumberedName(f_arg[p], k)
                /\ \A q \in 1..(p - 1) : f_ret[q] # f_ret[p]
                /\ \A j \in 1..(k - 1) :
                     \E q \in 1..(p - 1) : f_ret[q] = NumberedName(f_arg[p], j)

\* a name uploaded after itself and after its own first numbered form got the
\* counter 2
C18_Witness ==
  /\ f_pc = "done"
  /\ f_arg = <<File_A, File_A1, File_A>>
  /\ f_ret = <<File_A, File_A1, <<"a","#","2",".","p","d","f">> >>

(* ------------------------------------------------------------------ *)
(* Properties of main                                                   *)
(* ------------------------------------------------------------------ *)

\* C20: a run of main() in which the button is not pressed and the uploader
\* holds the files it held before leaves processing_complete,
\* processing_results and classification_results as they were.
C20_RerunKeepsResults ==
  [][(a_pc' = "idle" /\ pdf_uploader' = pdf_uploader)
       => /\ processing_complete' = processing_complete
          /\ processing_results' = processing_results
          /\ classification_results' = classification_results]_vars

(* ------------------------------------------------------------------ *)
(* Properties of the classification stage                               *)
(* ------------------------------------------------------------------ *)

\* the records without an error, by their error field
ErrorFree(records) == SelectSeq(records, LAMBDA r : r.error = None)

NoPredictionShown ==
  \A i \in DOMAIN display_data : "Is Activity" \notin DOMAIN display_data[i]

\* a preview is on the screen
PreviewShown == display_data # <<>>

====
